---- MODULE Spec2Model ----
(***************************************************************************)
(* Check-in ledger, progression engine and weekly rollover of vocal_bot.py *)
(* as a state machine.  The relational store (SQLite) and the spreadsheet  *)
(* mirror are the state; each handler or job is one action.                *)
(*                                                                         *)
(* Time is counted in half days from a Monday 00:00 in the fixed zone      *)
(* (America/Los_Angeles): an even value is the early part of a local date, *)
(* an odd value the late part, in which a host whose clock runs ahead of   *)
(* the fixed zone (a UTC host) already reports the next calendar date.     *)
(***************************************************************************)
EXTENDS Integers, Sequences, FiniteSets, Bags, TLC

\* ---------------------------------------------------------------- bounds
MaxSpan == 4
MaxDays == 3
MaxWeekCheckins == 4
MaxCheckins == 3
MaxRestarts == 1
MaxFails == 1
MaxDayInput == 4
MaxFailPoint == 4
MaxWeeks == 5
MaxXP == 1100
MaxHalfDays == 2
MaxSetupJobs == 9

\* ------------------------------------------------------ program constants
XP_PER_CHECKIN == 10
XP_BONUS_FULL_WEEK == 30
DEFAULT_MINUTES == 20
DaysPerWeek == 7
STREAK_BADGE_WEEKS == 4
LEVEL_THRESHOLDS == <<0, 50, 120, 210, 320, 450, 600, 800, 1050>>
TEAM == {"Isayas", "Sahara"}
BADGE_CODES == {"FIRST_FULL_WEEK", "FOUR_WEEK_STREAK", "EARLY_BIRD", "COMEBACK"}

\* ------------------------------------------------------------ value sets
Members == {1, 2}
DayInputs == 0..MaxDayInput
NoName == ""
NoBadge == ""
NULL == 0 - 1
NoXP == [absent |-> TRUE]
NoRec == [absent |-> TRUE]
NoRem == [absent |-> TRUE]
NoTime == [absent |-> TRUE]
HalfDaysPerWeek == 2 * DaysPerWeek
\* the mirror call of a handler that raises: 0 is "none of them"
FailPoints == 0..MaxFailPoint
ROLLOVER_MODES == {"archive", "clear", "none"}

VARIABLES
    now,            \* half days since the first Monday 00:00 (fixed zone)
    hostSkew,       \* 1: the host's date runs ahead in the late half (UTC host); 0: host in the fixed zone;
                    \* -1: the host's date runs behind in the early half (host west of the fixed zone)
    GS_ENABLED,     \* the spreadsheet mirror is configured
    GROUP_CHAT_ID,  \* 0: no group chat configured
    up,             \* the process is running
    blocked,        \* the event loop's thread is inside a spreadsheet call that has not returned
    users,          \* table users: telegram_id -> team_name
    checkins,       \* table checkins
    nextId,         \* AUTOINCREMENT of checkins.id
    tsSeq,          \* order of the timestamps handed out so far
    xp,             \* table xp: telegram_id -> row
    badges,         \* table badges
    nextBadgeId,    \* AUTOINCREMENT of badges.id
    shUsers,        \* mirror sheet Users
    shCheckins,     \* mirror sheet Checkins
    shXP,           \* mirror sheet XP
    shBadges,       \* mirror sheet Badges
    pendingBonus,   \* cb_day invocations suspended before the group celebration
    shArchive,      \* mirror sheet CheckinsArchive
    rolloverMode,   \* AUTO_ARCHIVE_PREV_WEEK / AUTO_CLEAR_PREV_WEEK / neither
    lastRollover,   \* the Monday of the last weekly-rollover fire (or of the start)
    restarts,       \* process restarts so far
    fails,          \* mirror calls that raised so far
    reminders,      \* table reminders: telegram_id -> schedule row
    jobs,           \* the job queue's personal reminder jobs (a bag)
    setupJobs,      \* the job queue's broadcast, nudge and rollover jobs (a bag)
    shReminders,    \* mirror sheet Reminders
    limits,         \* how far a run is followed: time, check-ins, restarts, failures
    ev              \* the last handler invocation, job or restart and its outcome

vars == <<now, hostSkew, GS_ENABLED, GROUP_CHAT_ID, up, blocked, users, checkins,
          nextId, tsSeq, xp, badges, nextBadgeId, shUsers, shCheckins, shXP, shBadges,
          pendingBonus, shArchive, rolloverMode, lastRollover, restarts, fails,
          reminders, jobs, setupJobs, shReminders, limits, ev>>

\* the process is up and its event loop runs callbacks
Running == up /\ ~blocked

config == <<hostSkew, GS_ENABLED, GROUP_CHAT_ID, rolloverMode, limits>>
store == <<users, checkins, nextId, tsSeq, xp, badges, nextBadgeId>>
mirror == <<shUsers, shCheckins, shXP, shBadges, shArchive>>
schedules == <<reminders, jobs, setupJobs, shReminders>>

\* ------------------------------------------------------------- calendar
Max(S) == CHOOSE x \in S : \A y \in S : y <= x

\* now.date() in the fixed zone
LocalDate(t) == t \div 2

\* datetime.date.today(): the host's own calendar date
HostDate(t) == (t + hostSkew) \div 2

\* date.weekday(): 0 is Monday
Weekday(d) == d % DaysPerWeek

\* week_start_iso(d): the Monday on or before d
week_start_iso(d) == d - Weekday(d)

\* ---------------------------------------------------------------- levels
\* the scan with a strict comparison: a total equal to a threshold stays below it
RECURSIVE LevelScanStrict(_, _, _)
LevelScanStrict(x, i, lvl) ==
    IF i > Len(LEVEL_THRESHOLDS) THEN lvl
    ELSE LevelScanStrict(x, i + 1, IF x > LEVEL_THRESHOLDS[i] THEN i ELSE lvl)

RECURSIVE LevelScan(_, _, _)
LevelScan(x, i, lvl) ==
    IF i > Len(LEVEL_THRESHOLDS) THEN lvl
    ELSE LevelScan(x, i + 1, IF x >= LEVEL_THRESHOLDS[i] THEN i ELSE lvl)

level_for_xp(x) == LevelScan(x, 1, 1)

\* ------------------------------------------------------- checkins table
\* The rows a SELECT ... WHERE telegram_id=? AND week_start=? returns
WeekRows(led, tg, wk) == {r \in led : r.telegram_id = tg /\ r.week_start = wk}

\* SELECT DISTINCT day FROM checkins WHERE telegram_id=? AND week_start=?
DoneDays(led, tg, wk) == {r.day : r \in WeekRows(led, tg, wk)}

\* the key (telegram_id, local_date) compared against a week_start
SameWeekStart(r, tg, ld) == r.telegram_id = tg /\ r.week_start = ld

\* the key of the daily cap: telegram_id=? AND local_date=?
SameDay(r, tg, ld) == r.telegram_id = tg /\ r.local_date = ld

\* the handler without its daily guard
NoDailyGuard(led, tg, ld) == FALSE

\* SELECT 1 FROM checkins WHERE telegram_id=? AND local_date=?   (daily guard)
DailyGuard(led, tg, ld) == \E r \in led : SameDay(r, tg, ld)

\* next_needed = (max(done_days) + 1) if done_days else 1
NextNeeded(done) == IF done = {} THEN 1 ELSE Max(done) + 1

\* UNIQUE INDEX ux_checkins_daily ON checkins(telegram_id, local_date); SQLite
\* treats NULLs as distinct, so a row without local_date never conflicts
DailyIndexConflict(led, row) ==
    /\ row.local_date # NULL
    /\ \E r \in led : SameDay(r, row.telegram_id, row.local_date)

\* the slot cap of the checkins table: one row per (member, week_start, slot)
SlotConflict(led, row) ==
    \E r \in led : /\ r.telegram_id = row.telegram_id
                   /\ r.week_start = row.week_start
                   /\ r.day = row.day

\* whether INSERT INTO checkins raises sqlite3.IntegrityError
IntegrityError(led, row) == DailyIndexConflict(led, row) \/ SlotConflict(led, row)

\* the weeks a display name has rows in
NameWeeks(led, name) == {r.week_start : r \in {x \in led : x.team_name = name}}

\* COUNT(DISTINCT day) of a display name in one week
NameWeekCount(led, name, wk) ==
    Cardinality({r.day : r \in {x \in led : x.team_name = name /\ x.week_start = wk}})

\* SELECT week_start, COUNT(DISTINCT day) ... WHERE team_name=? GROUP BY week_start
\* ORDER BY week_start DESC, counted while the count is 3
RECURSIVE StreakScan(_, _, _)
StreakScan(led, name, weeks) ==
    IF weeks = {} THEN 0
    ELSE LET w == Max(weeks)
         IN IF NameWeekCount(led, name, w) = 3
            THEN 1 + StreakScan(led, name, weeks \ {w})
            ELSE 0

streak_full(led, name) == StreakScan(led, name, NameWeeks(led, name))

\* SELECT COUNT(*) FROM checkins WHERE team_name=? AND week_start=? is 0
was_zero_last_week(led, name, t) ==
    LET last_week_start == week_start_iso(LocalDate(t)) - DaysPerWeek
    IN {r \in led : r.team_name = name /\ r.week_start = last_week_start} = {}

\* ------------------------------------------------- mirror and XP helpers
\* The handler's working state: st.calls counts the mirror calls made, the call
\* numbered st.failAt raises, and once st.exc is set the rest of the handler is
\* skipped (the exception propagates).
Work(failAt) ==
    [xp |-> xp, badges |-> badges, nextBadgeId |-> nextBadgeId,
     shCheckins |-> shCheckins, shXP |-> shXP, shBadges |-> shBadges,
     shUsers |-> shUsers, calls |-> 0, failAt |-> failAt, exc |-> FALSE]

\* one call of the spreadsheet API: it raises, or has the effect `done`
MirrorCall(st, done) ==
    IF st.exc \/ ~GS_ENABLED THEN st
    ELSE IF st.calls + 1 = st.failAt
         THEN [st EXCEPT !.calls = @ + 1, !.exc = TRUE]
         ELSE [done EXCEPT !.calls = st.calls + 1]

\* log_to_sheet: append the check-in row to the Checkins sheet
log_to_sheet(st, row) ==
    MirrorCall(st, [st EXCEPT !.shCheckins = Append(@,
        [team_name |-> row.team_name, day |-> row.day, minutes |-> row.minutes,
         ts |-> row.ts, week_start |-> row.week_start,
         telegram_id |-> row.telegram_id])])

\* get_or_create_xp: the row is created with 0 XP at level 1 when absent
get_or_create_xp(st, tg, name) ==
    IF st.exc \/ st.xp[tg] # NoXP THEN st
    ELSE [st EXCEPT !.xp[tg] =
            [team_name |-> name, xp |-> 0, level |-> 1, last_badge |-> NoBadge]]

\* set_xp writing the total but leaving the level of an existing row as it was
set_xp_keeping_level(st, tg, name, x, lvl, lb) ==
    IF st.exc THEN st
    ELSE LET old == IF st.xp[tg] = NoXP THEN lvl ELSE st.xp[tg].level
             row == [team_name |-> name, xp |-> x, level |-> old, last_badge |-> lb]
             s1 == [st EXCEPT !.xp[tg] = row]
         IN MirrorCall(s1, [s1 EXCEPT !.shXP[tg] = row])

\* set_xp: REPLACE INTO xp, then the row of the XP sheet is updated or appended
set_xp(st, tg, name, x, lvl, lb) ==
    IF st.exc THEN st
    ELSE LET row == [team_name |-> name, xp |-> x, level |-> lvl, last_badge |-> lb]
             s1 == [st EXCEPT !.xp[tg] = row]
         IN MirrorCall(s1, [s1 EXCEPT !.shXP[tg] = row])

\* award_badge: nothing when the (member, code) pair exists; else the row is
\* inserted, mirrored, and the code stored as last_badge of the XP row
HasBadge(bs, tg, code) == \E b \in bs : b.telegram_id = tg /\ b.badge_code = code

award_badge(st, tg, name, code, wk) ==
    IF st.exc \/ HasBadge(st.badges, tg, code) THEN st
    ELSE LET b == [id |-> st.nextBadgeId, telegram_id |-> tg, team_name |-> name,
                   badge_code |-> code, week_start |-> wk]
             s1 == [st EXCEPT !.badges = @ \cup {b}, !.nextBadgeId = @ + 1]
             s2 == MirrorCall(s1, [s1 EXCEPT !.shBadges = Append(@,
                      [telegram_id |-> tg, team_name |-> name,
                       badge_code |-> code, week_start |-> wk])])
             s3 == get_or_create_xp(s2, tg, name)
         IN IF s3.exc THEN s3
            ELSE set_xp(s3, tg, name, s3.xp[tg].xp, s3.xp[tg].level, code)

\* maybe_award_condition_badges: the four conditions, in the code's order
maybe_award_condition_badges(st, tg, name, wk, done, streak, zero_last, monday) ==
    LET a1 == IF done = {1, 2, 3}
              THEN award_badge(st, tg, name, "FIRST_FULL_WEEK", wk) ELSE st
        a2 == IF streak >= STREAK_BADGE_WEEKS
              THEN award_badge(a1, tg, name, "FOUR_WEEK_STREAK", wk) ELSE a1
        a3 == IF monday
              THEN award_badge(a2, tg, name, "EARLY_BIRD", wk) ELSE a2
        a4 == IF zero_last /\ done = {1, 2, 3}
              THEN award_badge(a3, tg, name, "COMEBACK", wk) ELSE a3
    IN a4

\* --------------------------------------------------------------- events
Event(op, tg, day, res, rec, exc) ==
    [op |-> op, m |-> tg, day |-> day, res |-> res, rec |-> rec, exc |-> exc]

\* a job or a restart, which is no handler invocation
Mark(op) == Event(op, 0, 0, "", NoRec, FALSE)

\* a handler may run: the process is up and the previous update is finished
\* (updates are processed one at a time)
HandlerReady == Running /\ pendingBonus = {}

\* the mirror call that raises in this invocation, 0 for none
MayFail(failAt) == failAt = 0 \/ (GS_ENABLED /\ fails < limits.fails)

\* the call chosen to raise was made
Hit(st, failAt) == failAt = 0 \/ st.exc

Raised(st) == IF st.exc THEN 1 ELSE 0

\* ------------------------------------------------------------ setup jobs
\* jq.run_daily(callback, time, days=(wd,), name=...): one more job in the
\* queue, whatever the queue already holds under that name
run_daily(js, name, wd, hour, minute) ==
    js (+) SetToBag({[name |-> name, wd |-> wd, hour |-> hour, minute |-> minute]})

schedule_group_broadcasts(js) ==
    IF GROUP_CHAT_ID = 0 THEN js
    ELSE run_daily(run_daily(run_daily(js, "grp-mon-9am", 0, 9, 0),
                             "grp-sat-9am", 5, 9, 0),
                   "grp-sun-verse", 6, 7, 30)

schedule_individual_nudges(js) ==
    run_daily(run_daily(js, "dm-tue", 1, 10, 0), "dm-thu", 3, 10, 0)

schedule_week_rollover(js) == run_daily(js, "weekly-rollover", 0, 0, 5)

\* main(): the three setup functions, in their order
SetupJobs(js) ==
    schedule_week_rollover(schedule_individual_nudges(schedule_group_broadcasts(js)))

\* ----------------------------------------------------------------- Init
\* The process was started at one of `starts` with an empty store and an empty
\* mirror; `reg` are the registrations already made.
InitAt(starts, skews, gss, groups, modes, reg, lim) ==
    /\ now \in starts
    /\ hostSkew \in skews
    /\ GS_ENABLED \in gss
    /\ GROUP_CHAT_ID \in groups
    /\ rolloverMode \in modes
    /\ up = TRUE
    /\ blocked = FALSE
    /\ users = reg
    /\ checkins = {}
    /\ nextId = 1
    /\ tsSeq = 0
    /\ xp = [tg \in Members |-> NoXP]
    /\ badges = {}
    /\ nextBadgeId = 1
    /\ shUsers = IF GS_ENABLED THEN reg ELSE [tg \in Members |-> NoName]
    /\ shCheckins = <<>>
    /\ shXP = [tg \in Members |-> NoXP]
    /\ shBadges = <<>>
    /\ shArchive = <<>>
    /\ pendingBonus = {}
    /\ reminders = [tg \in Members |-> NoRem]
    /\ jobs = EmptyBag
    /\ setupJobs = SetupJobs(EmptyBag)
    /\ shReminders = <<>>
    /\ lastRollover = week_start_iso(LocalDate(now))
    /\ restarts = 0
    /\ fails = 0
    /\ limits = [lim EXCEPT !.until = now + lim.span * lim.step]
    /\ ev = Mark("init")

Nobody == [tg \in Members |-> NoName]
OneMember == [tg \in Members |-> IF tg = 1 THEN "Isayas" ELSE NoName]

\* ------------------------------------------------------ weekly rollover
\* run_daily(_job_selector, time=00:05, days=(0,)): due on a Monday the job has
\* not fired for, while the process is up
RolloverDue ==
    /\ Running
    /\ now % HalfDaysPerWeek = 0
    /\ lastRollover < LocalDate(now)

\* the sheet without its last cnt rows of week wk (delete_rows from the bottom up)
RECURSIVE DropLastOfWeek(_, _, _)
DropLastOfWeek(rows, wk, cnt) ==
    IF cnt = 0 \/ rows = <<>> THEN rows
    ELSE LET last == rows[Len(rows)]
             front == SubSeq(rows, 1, Len(rows) - 1)
         IN IF last.week_start = wk
            THEN DropLastOfWeek(front, wk, cnt - 1)
            ELSE Append(DropLastOfWeek(front, wk, cnt), last)

WeekPayload(rows, wk) ==
    LET InWeek(r) == r.week_start = wk IN SelectSeq(rows, InWeek)

\* _archive_and_clear_week: the sheet side (read, append_rows, delete_rows each
\* row), whose exception is logged, then DELETE FROM checkins WHERE week_start=?
archive_and_clear_week(wk, failAt, dbOk) ==
    LET payload == WeekPayload(shCheckins, wk)
        k == Len(payload)
        lastCall == IF k = 0 THEN 1 ELSE 2 + k
    IN /\ failAt <= (IF GS_ENABLED THEN lastCall ELSE 0)
       /\ IF GS_ENABLED /\ failAt # 1 /\ ~(failAt = 2)
          THEN /\ shArchive' = shArchive \o payload
               /\ shCheckins' = DropLastOfWeek(shCheckins, wk,
                                   IF failAt = 0 THEN k ELSE failAt - 3)
          ELSE UNCHANGED <<shArchive, shCheckins>>
       /\ checkins' = IF dbOk THEN {r \in checkins : r.week_start # wk} ELSE checkins

\* _clear_week_no_archive: the sheet rows and the table rows are deleted
clear_week_no_archive(wk, failAt, dbOk) ==
    LET k == Len(WeekPayload(shCheckins, wk))
    IN /\ failAt <= (IF GS_ENABLED THEN 1 + k ELSE 0)
       /\ IF GS_ENABLED /\ failAt # 1
          THEN shCheckins' = DropLastOfWeek(shCheckins, wk,
                                 IF failAt = 0 THEN k ELSE failAt - 2)
          ELSE UNCHANGED shCheckins
       /\ checkins' = IF dbOk THEN {r \in checkins : r.week_start # wk} ELSE checkins
       /\ UNCHANGED shArchive

\* _job_selector of schedule_week_rollover
Rollover(failAt, dbOk) ==
    /\ RolloverDue
    /\ failAt = 0 \/ fails < limits.fails
    /\ dbOk \/ (fails < limits.fails /\ failAt = 0)
    /\ LET this_week_start == week_start_iso(HostDate(now))
           last_week_start == this_week_start - DaysPerWeek
       IN CASE rolloverMode = "archive" ->
                 archive_and_clear_week(last_week_start, failAt, dbOk)
            [] rolloverMode = "clear" ->
                 clear_week_no_archive(last_week_start, failAt, dbOk)
            [] OTHER ->
                 /\ failAt = 0 /\ dbOk
                 /\ UNCHANGED <<checkins, shCheckins, shArchive>>
    /\ lastRollover' = LocalDate(now)
    /\ fails' = fails + (IF failAt # 0 \/ ~dbOk THEN 1 ELSE 0)
    /\ ev' = Mark("rollover")
    /\ UNCHANGED <<now, config, schedules, up, blocked, users, nextId, tsSeq, xp, badges,
                   nextBadgeId,
                   shUsers, shXP, shBadges, pendingBonus, restarts>>

\* ----------------------------------------------------------------- time
Tick ==
    /\ now < limits.until
    /\ ~RolloverDue
    /\ now' = now + limits.step
    /\ UNCHANGED <<config, schedules, up, blocked, store, mirror, pendingBonus, lastRollover,
                   restarts, fails, ev>>

\* REPLACE INTO users: the table holds one row per telegram_id
ReplaceUser(us, tg, name) == [us EXCEPT ![tg] = name]

\* /register that takes any name
register_any_name(tg, name, failAt) ==
    /\ HandlerReady
    /\ MayFail(failAt)
    /\ IF name = NoName
       THEN /\ failAt = 0
            /\ ev' = Event("register", tg, 0, "BadName", NoRec, FALSE)
            /\ UNCHANGED <<users, shUsers, fails>>
       ELSE LET st == MirrorCall(Work(failAt),
                          [Work(failAt) EXCEPT !.shUsers[tg] = name])
            IN /\ Hit(st, failAt)
               /\ users' = ReplaceUser(users, tg, name)
               /\ shUsers' = st.shUsers
               /\ fails' = fails + Raised(st)
               /\ ev' = Event("register", tg, 0, "Registered", NoRec, st.exc)
    /\ UNCHANGED <<now, config, schedules, up, blocked, checkins, nextId, tsSeq, xp, badges,
                   nextBadgeId, shCheckins, shXP, shBadges, shArchive,
                   pendingBonus, lastRollover, restarts>>

\* ------------------------------------------------------------- register
register(tg, name, failAt) ==
    /\ HandlerReady
    /\ MayFail(failAt)
    /\ IF name \notin TEAM
       THEN /\ failAt = 0
            /\ ev' = Event("register", tg, 0, "BadName", NoRec, FALSE)
            /\ UNCHANGED <<users, shUsers, fails>>
       ELSE LET st == MirrorCall(Work(failAt),
                          [Work(failAt) EXCEPT !.shUsers[tg] = name])
            IN /\ Hit(st, failAt)
               /\ users' = ReplaceUser(users, tg, name)
               /\ shUsers' = st.shUsers
               /\ fails' = fails + Raised(st)
               /\ ev' = Event("register", tg, 0, "Registered", NoRec, st.exc)
    /\ UNCHANGED <<now, config, schedules, up, blocked, checkins, nextId, tsSeq, xp, badges,
                   nextBadgeId, shCheckins, shXP, shBadges, shArchive,
                   pendingBonus, lastRollover, restarts>>

\* --------------------------------------------------------------- cb_day
\* a rejection before the insert: the handler replies and returns
Reject(tg, day, res, failAt) ==
    /\ failAt = 0
    /\ ev' = Event("cb_day", tg, day, res, NoRec, FALSE)
    /\ UNCHANGED <<checkins, nextId, tsSeq, xp, badges, nextBadgeId,
                   shCheckins, shXP, shBadges, pendingBonus, fails>>

\* the row of the INSERT INTO checkins
CheckinRow(tg, day, team_name, wk) ==
    [id |-> nextId, telegram_id |-> tg, team_name |-> team_name,
     week_start |-> wk, day |-> day, minutes |-> DEFAULT_MINUTES,
     ts |-> [date |-> LocalDate(now), seq |-> tsSeq + 1],
     local_date |-> LocalDate(now)]

\* from the INSERT to the reward card: the part that runs without awaiting
Accept(tg, day, team_name, wk, failAt) ==
    LET row == CheckinRow(tg, day, team_name, wk)
        done_days == DoneDays(checkins, tg, wk)
        logged_ok == ~IntegrityError(checkins, row)
        led == IF logged_ok THEN checkins \cup {row} ELSE checkins
        cnt == Cardinality(DoneDays(led, tg, wk))
        streak == streak_full(led, team_name)
        zero_last == was_zero_last_week(led, team_name, now)
        monday_logged == Weekday(LocalDate(now)) = 0
        s0 == Work(failAt)
        s1 == IF logged_ok THEN log_to_sheet(s0, row) ELSE s0
        s2 == get_or_create_xp(s1, tg, team_name)
        s3 == IF s2.exc THEN s2
              ELSE set_xp(s2, tg, team_name, s2.xp[tg].xp + XP_PER_CHECKIN,
                          level_for_xp(s2.xp[tg].xp + XP_PER_CHECKIN), NoBadge)
        s4 == maybe_award_condition_badges(s3, tg, team_name, wk,
                  done_days \cup (IF logged_ok THEN {day} ELSE {}),
                  streak, zero_last, monday_logged)
    IN /\ tsSeq < limits.checkins
       /\ Hit(s4, failAt)
       /\ checkins' = led
       /\ nextId' = IF logged_ok THEN nextId + 1 ELSE nextId
       /\ tsSeq' = tsSeq + 1
       /\ xp' = s4.xp
       /\ badges' = s4.badges
       /\ nextBadgeId' = s4.nextBadgeId
       /\ shCheckins' = s4.shCheckins
       /\ shXP' = s4.shXP
       /\ shBadges' = s4.shBadges
       /\ fails' = fails + Raised(s4)
       /\ pendingBonus' = IF ~s4.exc /\ cnt = 3 /\ GROUP_CHAT_ID # 0
                          THEN {[telegram_id |-> tg, team_name |-> team_name]}
                          ELSE {}
       /\ ev' = Event("cb_day", tg, day,
                      IF logged_ok THEN "Logged" ELSE "AlreadyLogged",
                      IF logged_ok THEN row ELSE NoRec, s4.exc)

cb_day(tg, day, failAt) ==
    /\ HandlerReady
    /\ MayFail(failAt)
    /\ IF users[tg] = NoName
       THEN Reject(tg, day, "NotRegistered", failAt)
       ELSE LET wk == week_start_iso(HostDate(now))
            IN IF DailyGuard(checkins, tg, LocalDate(now))
               THEN Reject(tg, day, "AlreadyCheckedInToday", failAt)
               ELSE IF day # NextNeeded(DoneDays(checkins, tg, wk))
                    THEN Reject(tg, day, "OutOfOrderSlot", failAt)
                    ELSE Accept(tg, day, users[tg], wk, failAt)
    /\ UNCHANGED <<now, config, schedules, up, blocked, users, shUsers, shArchive,
                   lastRollover, restarts>>

\* cb_day whose log_to_sheet never returns: ws.append_row is a synchronous
\* call made on the event loop's thread, after the INSERT is committed
cb_day_hung(tg, day) ==
    /\ HandlerReady
    /\ GS_ENABLED
    /\ users[tg] # NoName
    /\ tsSeq < limits.checkins
    /\ LET wk == week_start_iso(HostDate(now))
           row == CheckinRow(tg, day, users[tg], wk)
       IN /\ ~DailyGuard(checkins, tg, LocalDate(now))
          /\ day = NextNeeded(DoneDays(checkins, tg, wk))
          /\ ~IntegrityError(checkins, row)
          /\ checkins' = checkins \cup {row}
          /\ ev' = Event("cb_day", tg, day, "Hung", row, FALSE)
    /\ nextId' = nextId + 1
    /\ tsSeq' = tsSeq + 1
    /\ blocked' = TRUE
    /\ UNCHANGED <<now, config, schedules, up, users, xp, badges, nextBadgeId,
                   mirror, pendingBonus, lastRollover, restarts, fails>>

\* the group celebration and the weekly bonus, after the awaited replies; a
\* reply or the group message that fails ends the handler without the bonus,
\* and an exception inside the block is swallowed
cb_day_bonus(sendOk, failAt) ==
    /\ Running
    /\ pendingBonus # {}
    /\ MayFail(failAt)
    /\ \E p \in pendingBonus :
         LET s1 == get_or_create_xp(Work(failAt), p.telegram_id, p.team_name)
             x2 == s1.xp[p.telegram_id].xp + XP_BONUS_FULL_WEEK
             s2 == set_xp(s1, p.telegram_id, p.team_name, x2, level_for_xp(x2), NoBadge)
         IN IF sendOk
            THEN /\ Hit(s2, failAt)
                 /\ xp' = s2.xp
                 /\ shXP' = s2.shXP
                 /\ fails' = fails + Raised(s2)
            ELSE /\ failAt = 0
                 /\ UNCHANGED <<xp, shXP, fails>>
    /\ pendingBonus' = {}
    /\ UNCHANGED <<now, config, schedules, up, blocked, users, checkins, nextId, tsSeq, badges,
                   nextBadgeId, shUsers, shCheckins, shBadges, shArchive,
                   lastRollover, restarts, ev>>

\* ----------------------------------------------------------------- undo
\* ORDER BY ts ASC LIMIT 1
FirstRows(led, tg, wk) ==
    {r \in WeekRows(led, tg, wk) :
        \A o \in WeekRows(led, tg, wk) : r.ts.seq <= o.ts.seq}

\* ORDER BY ts DESC LIMIT 1 over the member's rows of the host's current week
LastRows(led, tg, wk) ==
    {r \in WeekRows(led, tg, wk) :
        \A o \in WeekRows(led, tg, wk) : o.ts.seq <= r.ts.seq}

\* an undo that also takes back the XP of the removed check-in
undo_reclaiming_xp(tg) ==
    /\ HandlerReady
    /\ LET wk == week_start_iso(HostDate(now))
       IN IF WeekRows(checkins, tg, wk) = {}
          THEN /\ ev' = Event("undo", tg, 0, "NothingToUndo", NoRec, FALSE)
               /\ UNCHANGED <<checkins, xp>>
          ELSE \E r \in LastRows(checkins, tg, wk) :
                 /\ checkins' = {x \in checkins : x.id # r.id}
                 /\ xp' = IF xp[tg] = NoXP THEN xp
                          ELSE [xp EXCEPT ![tg].xp = Max({0, @ - XP_PER_CHECKIN})]
                 /\ ev' = Event("undo", tg, r.day, "Removed", r, FALSE)
    /\ UNCHANGED <<now, config, schedules, up, blocked, users, nextId, tsSeq, badges,
                   nextBadgeId,
                   mirror, pendingBonus, lastRollover, restarts, fails>>

undo(tg) ==
    /\ HandlerReady
    /\ LET wk == week_start_iso(HostDate(now))
       IN IF WeekRows(checkins, tg, wk) = {}
          THEN /\ ev' = Event("undo", tg, 0, "NothingToUndo", NoRec, FALSE)
               /\ UNCHANGED checkins
          ELSE \E r \in LastRows(checkins, tg, wk) :
                 /\ checkins' = {x \in checkins : x.id # r.id}
                 /\ ev' = Event("undo", tg, r.day, "Removed", r, FALSE)
    /\ UNCHANGED <<now, config, schedules, up, blocked, users, nextId, tsSeq, xp, badges,
                   nextBadgeId,
                   mirror, pendingBonus, lastRollover, restarts, fails>>

\* -------------------------------------------------------------- streaks
\* /streaks: for each roster name the weeks with rows, newest first, counted
\* while COUNT(DISTINCT day) is 3; the reply carries the streak of every name
streaks ==
    /\ HandlerReady
    /\ ev' = Event("streaks", 0, 0, "Streaks",
                   [n \in TEAM |-> streak_full(checkins, n)], FALSE)
    /\ UNCHANGED <<now, config, schedules, up, blocked, store, mirror, pendingBonus,
                   lastRollover,
                   restarts, fails>>

\* ------------------------------------------------ weekly table and ranking
\* parse_week_rows marking the first two slots only
parse_week_rows_two_slots(led, wk) ==
    [n \in TEAM |->
        [d \in 1..3 |-> d < 3 /\ \E r \in led :
                            r.week_start = wk /\ r.team_name = n /\ r.day = d]]

\* parse_week_rows: per roster name, the slots 1..3 that a row of the week marks
parse_week_rows(led, wk) ==
    [n \in TEAM |->
        [d \in 1..3 |-> \E r \in led :
                            r.week_start = wk /\ r.team_name = n /\ r.day = d]]

\* /week
week ==
    /\ HandlerReady
    /\ ev' = Event("week", 0, 0, "Table",
                   parse_week_rows(checkins, week_start_iso(HostDate(now))), FALSE)
    /\ UNCHANGED <<now, config, schedules, up, blocked, store, mirror, pendingBonus,
                   lastRollover, restarts, fails>>

\* the roster names in the order of str comparison
SortedNames == <<"Isayas", "Sahara">>

\* a < b on names
NameBefore(a, b) ==
    \E i, j \in DOMAIN SortedNames :
        i < j /\ SortedNames[i] = a /\ SortedNames[j] = b

\* the sort key comparing the names only
KeyBeforeByName(a, b) == NameBefore(a.name, b.name)

\* (-x[1], x[0]) of a before that of b
KeyBefore(a, b) ==
    \/ a.score > b.score
    \/ a.score = b.score /\ NameBefore(a.name, b.name)

\* sorted(scores.items(), key=...)
RECURSIVE SortedItems(_)
SortedItems(items) ==
    IF items = {} THEN <<>>
    ELSE LET first == CHOOSE a \in items :
                          \A b \in items \ {a} : KeyBefore(a, b)
         IN <<first>> \o SortedItems(items \ {first})

\* the ranking of /leaderboard: min(3, COUNT(DISTINCT day)) per roster name
leaderboard_ranking(led, wk) ==
    LET cnt(n) == NameWeekCount(led, n, wk)
        scores == [n \in TEAM |-> IF cnt(n) < 3 THEN cnt(n) ELSE 3]
    IN SortedItems({[name |-> n, score |-> scores[n]] : n \in TEAM})

\* /leaderboard
leaderboard ==
    /\ HandlerReady
    /\ ev' = Event("leaderboard", 0, 0, "Ranking",
                   [ordered |-> leaderboard_ranking(checkins,
                                    week_start_iso(HostDate(now)))], FALSE)
    /\ UNCHANGED <<now, config, schedules, up, blocked, store, mirror, pendingBonus,
                   lastRollover, restarts, fails>>

\* ------------------------------------------------- personal reminders
WeekdayNames == <<"MON", "TUE", "WED", "THU", "FRI", "SAT", "SUN">>

WEEKDAY_MAP ==
    [n \in {WeekdayNames[i] : i \in DOMAIN WeekdayNames} |->
        (CHOOSE i \in DOMAIN WeekdayNames : WeekdayNames[i] = n) - 1]

REV_WEEKDAY_MAP == [d \in 0..(DaysPerWeek - 1) |-> WeekdayNames[d + 1]]

\* parse_days_csv: the weekdays named by the comma-separated parts, unknown
\* parts dropped, duplicates merged
parse_days_csv(s) ==
    {WEEKDAY_MAP[s[i]] : i \in {k \in DOMAIN s : s[k] \in DOMAIN WEEKDAY_MAP}}

\* normalize_days_to_csv: the names of the weekdays in ascending order
RECURSIVE normalize_days_to_csv(_)
normalize_days_to_csv(days) ==
    IF days = {} THEN <<>>
    ELSE LET d == CHOOSE x \in days : \A y \in days : x <= y
         IN <<REV_WEEKDAY_MAP[d]>> \o normalize_days_to_csv(days \ {d})

\* a field of a time argument split at ":": digits that int() reads, or not
Digits(n) == [int |-> TRUE, val |-> n]
Word == [int |-> FALSE, val |-> 0]

\* parse_time_hhmm accepting any hour and minute
parse_time_hhmm_unchecked(a) ==
    IF Len(a) = 2 /\ a[1].int /\ a[2].int
    THEN [hour |-> a[1].val, minute |-> a[2].val]
    ELSE NoTime

\* parse_time_hhmm: two integer fields, the hour in 0..23 and the minute in
\* 0..59, or nothing (the unpacking or int() raised, or out of range)
parse_time_hhmm(a) ==
    IF Len(a) = 2 /\ a[1].int /\ a[2].int
       /\ a[1].val \in 0..23 /\ a[2].val \in 0..59
    THEN [hour |-> a[1].val, minute |-> a[2].val]
    ELSE NoTime

\* REPLACE INTO reminders: the table holds one row per member
ReplaceInto(rem, tg, row) == [rem EXCEPT ![tg] = row]

\* the jobs of the queue without those named rem-<telegram_id>
\* (get_jobs_by_name, schedule_removal)
WithoutJobsOf(js, tg) ==
    [j \in {x \in DOMAIN js : x.name # tg} |-> js[j]]

\* the scheduling that leaves the member's earlier jobs in the queue
schedule_user_reminders_keeping_old(js, tg, days, hour, minute) ==
    js (+) SetToBag({[name |-> tg, wd |-> wd, hour |-> hour, minute |-> minute] :
                      wd \in days})

\* schedule_user_reminders: the member's jobs are removed, then one run_daily
\* job per weekday is added
schedule_user_reminders(js, tg, days, hour, minute) ==
    WithoutJobsOf(js, tg)
        (+) SetToBag({[name |-> tg, wd |-> wd, hour |-> hour, minute |-> minute] :
                       wd \in days})

\* restore_all_user_reminders: the jobs of every row of the reminders table,
\* in a queue that is empty after the start
RECURSIVE RestoreScan(_, _, _)
RestoreScan(rem, todo, js) ==
    IF todo = {} THEN js
    ELSE LET tg == CHOOSE x \in todo : TRUE
             days == parse_days_csv(rem[tg].days_csv)
         IN RestoreScan(rem, todo \ {tg},
                IF days # {}
                THEN schedule_user_reminders(js, tg, days, rem[tg].hour, rem[tg].minute)
                ELSE js)

restore_all_user_reminders(rem) ==
    RestoreScan(rem, {tg \in Members : rem[tg] # NoRem}, EmptyBag)

\* a row whose time datetime.time() refuses: schedule_user_reminders raises
\* out of restore_all_user_reminders and main() ends
RestoreError(rem) ==
    \E tg \in Members :
        /\ rem[tg] # NoRem
        /\ parse_days_csv(rem[tg].days_csv) # {}
        /\ ~(rem[tg].hour \in 0..23 /\ rem[tg].minute \in 0..59)

\* the Reminders sheet is edited by hand: the hour of a row is overwritten
SheetEdited(i, hour) ==
    /\ i \in DOMAIN shReminders
    /\ shReminders[i].hour # hour
    /\ shReminders' = [shReminders EXCEPT ![i].hour = hour]
    /\ ev' = Mark("sheet edited")
    /\ UNCHANGED <<now, config, reminders, jobs, setupJobs, up, blocked, store, shUsers, shCheckins,
                   shXP, shBadges, shArchive, pendingBonus, lastRollover,
                   restarts, fails>>

\* the first row of the Reminders sheet for the member, 0 for none; a read
\* that fails yields no rows (_get_records)
SheetRowOf(tg, readOk) ==
    IF readOk /\ \E i \in DOMAIN shReminders : shReminders[i].telegram_id = tg
    THEN CHOOSE i \in DOMAIN shReminders :
            /\ shReminders[i].telegram_id = tg
            /\ \A k \in 1..(i - 1) : shReminders[k].telegram_id # tg
    ELSE 0

\* the mirror part of a reminder handler: the read may fail (no rows), the
\* write that follows may raise
ReminderSync(failAt, readOk, written) ==
    /\ readOk \/ (failAt = 0 /\ GS_ENABLED /\ fails < limits.fails)
    /\ shReminders' = IF GS_ENABLED /\ failAt = 0 THEN written ELSE shReminders
    /\ fails' = fails + (IF failAt # 0 \/ ~readOk THEN 1 ELSE 0)

RemindReject(tg, res) ==
    /\ ev' = Event("remind", tg, 0, res, NoRec, FALSE)
    /\ UNCHANGED <<reminders, jobs, shReminders, fails>>

\* /remind that mirrors the row before it touches the job queue: a write to the
\* sheet that raises leaves the new row with the old jobs
remind_syncing_first(tg, args, failAt, readOk) ==
    /\ HandlerReady
    /\ failAt \in {0, 1}
    /\ MayFail(failAt)
    /\ IF Len(args) < 2
       THEN /\ failAt = 0 /\ readOk
            /\ RemindReject(tg, "Usage")
       ELSE LET days == parse_days_csv(args[1])
                hm == parse_time_hhmm(args[2])
            IN IF days = {} \/ hm = NoTime
               THEN /\ failAt = 0 /\ readOk
                    /\ RemindReject(tg, "InvalidSchedule")
               ELSE LET row == [days_csv |-> normalize_days_to_csv(days),
                                hour |-> hm.hour, minute |-> hm.minute]
                        payload == [telegram_id |-> tg, days_csv |-> row.days_csv,
                                    hour |-> row.hour, minute |-> row.minute]
                        idx == SheetRowOf(tg, readOk)
                    IN /\ reminders' = ReplaceInto(reminders, tg, row)
                       /\ ReminderSync(failAt, readOk,
                              IF idx # 0 THEN [shReminders EXCEPT ![idx] = payload]
                              ELSE Append(shReminders, payload))
                       /\ jobs' = IF failAt # 0 THEN jobs
                                  ELSE schedule_user_reminders(jobs, tg, days,
                                                               hm.hour, hm.minute)
                       /\ ev' = Event("remind", tg, 0, "Set", row, failAt # 0)
    /\ UNCHANGED <<now, config, up, blocked, store, setupJobs, shUsers, shCheckins, shXP,
                   shBadges, shArchive, pendingBonus, lastRollover, restarts>>

\* /remind <DAYS> <HH:MM>
remind(tg, args, failAt, readOk) ==
    /\ HandlerReady
    /\ failAt \in {0, 1}
    /\ MayFail(failAt)
    /\ IF Len(args) < 2
       THEN /\ failAt = 0 /\ readOk
            /\ RemindReject(tg, "Usage")
       ELSE LET days == parse_days_csv(args[1])
                hm == parse_time_hhmm(args[2])
            IN IF days = {} \/ hm = NoTime
               THEN /\ failAt = 0 /\ readOk
                    /\ RemindReject(tg, "InvalidSchedule")
               ELSE LET row == [days_csv |-> normalize_days_to_csv(days),
                                hour |-> hm.hour, minute |-> hm.minute]
                        payload == [telegram_id |-> tg, days_csv |-> row.days_csv,
                                    hour |-> row.hour, minute |-> row.minute]
                        idx == SheetRowOf(tg, readOk)
                    IN /\ reminders' = ReplaceInto(reminders, tg, row)
                       /\ jobs' = schedule_user_reminders(jobs, tg, days,
                                                          hm.hour, hm.minute)
                       /\ ReminderSync(failAt, readOk,
                              IF idx # 0 THEN [shReminders EXCEPT ![idx] = payload]
                              ELSE Append(shReminders, payload))
                       /\ ev' = Event("remind", tg, 0, "Set", row, failAt # 0)
    /\ UNCHANGED <<now, config, up, blocked, store, setupJobs, shUsers, shCheckins, shXP,
                   shBadges, shArchive, pendingBonus, lastRollover, restarts>>

\* /myreminders
myreminders(tg) ==
    /\ HandlerReady
    /\ ev' = Event("myreminders", tg, 0,
                   IF reminders[tg] = NoRem THEN "NoActiveSchedule" ELSE "Schedule",
                   reminders[tg], FALSE)
    /\ UNCHANGED <<now, config, schedules, up, blocked, store, mirror, pendingBonus,
                   lastRollover, restarts, fails>>

\* /stopreminders that deletes the row and leaves the jobs in the queue
stopreminders_keeping_jobs(tg, failAt, readOk) ==
    /\ HandlerReady
    /\ failAt \in {0, 1}
    /\ MayFail(failAt)
    /\ LET idx == SheetRowOf(tg, readOk)
       IN /\ reminders' = [reminders EXCEPT ![tg] = NoRem]
          /\ jobs' = jobs
          /\ failAt # 0 => idx # 0
          /\ ReminderSync(failAt, readOk,
                 IF idx # 0
                 THEN SubSeq(shReminders, 1, idx - 1)
                          \o SubSeq(shReminders, idx + 1, Len(shReminders))
                 ELSE shReminders)
          /\ ev' = Event("stopreminders", tg, 0, "Off", NoRec, failAt # 0)
    /\ UNCHANGED <<now, config, up, blocked, store, setupJobs, shUsers, shCheckins, shXP,
                   shBadges, shArchive, pendingBonus, lastRollover, restarts>>

\* /stopreminders
stopreminders(tg, failAt, readOk) ==
    /\ HandlerReady
    /\ failAt \in {0, 1}
    /\ MayFail(failAt)
    /\ LET idx == SheetRowOf(tg, readOk)
       IN /\ reminders' = [reminders EXCEPT ![tg] = NoRem]
          /\ jobs' = WithoutJobsOf(jobs, tg)
          /\ failAt # 0 => idx # 0
          /\ ReminderSync(failAt, readOk,
                 IF idx # 0
                 THEN SubSeq(shReminders, 1, idx - 1)
                          \o SubSeq(shReminders, idx + 1, Len(shReminders))
                 ELSE shReminders)
          /\ ev' = Event("stopreminders", tg, 0, "Off", NoRec, failAt # 0)
    /\ UNCHANGED <<now, config, up, blocked, store, setupJobs, shUsers, shCheckins, shXP,
                   shBadges, shArchive, pendingBonus, lastRollover, restarts>>

\* a run_daily job is due on its weekday, in the half of the day of its time
Due(j) ==
    /\ j.wd = Weekday(LocalDate(now))
    /\ (j.hour >= 12) = (now % 2 = 1)

\* personal_reminder_job: a due job of the queue fires and sends its nudge; a
\* send_message that raises leaves the callback as an exception
personal_reminder_job(j, sendOk) ==
    /\ Running
    /\ j \in BagToSet(jobs)
    /\ Due(j)
    /\ ev' = Event("personal_reminder_job", j.name, 0,
                   IF sendOk THEN "Sent" ELSE "NotSent", j, ~sendOk)
    /\ UNCHANGED <<now, config, schedules, up, blocked, store, mirror, pendingBonus,
                   lastRollover, restarts, fails>>

\* ------------------------------------------------- broadcasts and nudges
\* a setup function is run on the application's job queue
SetupRun(f) ==
    /\ Running
    /\ setupJobs' = CASE f = "broadcasts" -> schedule_group_broadcasts(setupJobs)
                       [] f = "nudges" -> schedule_individual_nudges(setupJobs)
                       [] f = "rollover" -> schedule_week_rollover(setupJobs)
    /\ BagCardinality(setupJobs') <= MaxSetupJobs
    /\ ev' = Event("setup", 0, 0, f, NoRec, FALSE)
    /\ UNCHANGED <<now, config, reminders, jobs, shReminders, up, blocked, store, mirror,
                   pendingBonus, lastRollover, restarts, fails>>

\* _send_group_text and _send_bible_verse: a due group broadcast; nothing is
\* sent without a group chat, and a send that fails is passed over
send_group_text(j, sendOk) ==
    /\ Running
    /\ j \in BagToSet(setupJobs)
    /\ j.name \in {"grp-mon-9am", "grp-sat-9am", "grp-sun-verse"}
    /\ Due(j)
    /\ ev' = Event("send_group_text", 0, 0,
                   IF GROUP_CHAT_ID # 0 /\ sendOk THEN "Sent" ELSE "NotSent",
                   j, FALSE)
    /\ UNCHANGED <<now, config, schedules, up, blocked, store, mirror, pendingBonus,
                   lastRollover, restarts, fails>>

\* _dm_nudge: a due nudge is sent to every row of users; a send that fails
\* (the members of `unreachable`) is passed over
dm_nudge(j, unreachable) ==
    /\ Running
    /\ j \in BagToSet(setupJobs)
    /\ j.name \in {"dm-tue", "dm-thu"}
    /\ Due(j)
    /\ ev' = Event("dm_nudge", 0, 0, "Sent",
                   [job |-> j,
                    sent |-> {tg \in Members : users[tg] # NoName} \ unreachable],
                   FALSE)
    /\ UNCHANGED <<now, config, schedules, up, blocked, store, mirror, pendingBonus,
                   lastRollover, restarts, fails>>

\* init_db: local_date of the rows that lack it is taken from ts
Backfilled(led) ==
    {[r EXCEPT !.local_date = IF @ = NULL THEN r.ts.date ELSE @] : r \in led}

\* an UPDATE of the backfill hits ux_checkins_daily: init_db raises
BackfillError(led) ==
    \E a \in Backfilled(led), b \in Backfilled(led) :
        /\ a.id # b.id
        /\ a.telegram_id = b.telegram_id
        /\ a.local_date = b.local_date

\* hydrate_from_sheets, Checkins: INSERT OR IGNORE of each sheet row, in order
RECURSIVE HydrateCheckins(_, _, _, _)
HydrateCheckins(rows, i, led, id) ==
    IF i > Len(rows) THEN [checkins |-> led, nextId |-> id]
    ELSE LET r == rows[i]
             row == [id |-> id, telegram_id |-> r.telegram_id,
                     team_name |-> r.team_name, week_start |-> r.week_start,
                     day |-> r.day, minutes |-> r.minutes, ts |-> r.ts,
                     local_date |-> NULL]
         IN IF r.day \in {1, 2, 3} /\ ~IntegrityError(led, row)
            THEN HydrateCheckins(rows, i + 1, led \cup {row}, id + 1)
            ELSE HydrateCheckins(rows, i + 1, led, id)

\* hydrate_from_sheets, Badges: INSERT OR IGNORE into a table without a
\* uniqueness constraint
RECURSIVE HydrateBadges(_, _, _, _)
HydrateBadges(rows, i, bs, id) ==
    IF i > Len(rows) THEN [badges |-> bs, nextBadgeId |-> id]
    ELSE LET r == rows[i]
         IN HydrateBadges(rows, i + 1,
                bs \cup {[id |-> id, telegram_id |-> r.telegram_id,
                          team_name |-> r.team_name, badge_code |-> r.badge_code,
                          week_start |-> r.week_start]},
                id + 1)

\* hydrate_from_sheets, Reminders: REPLACE of each sheet row, in order
RECURSIVE HydrateReminders(_, _, _)
HydrateReminders(rows, i, rem) ==
    IF i > Len(rows) THEN rem
    ELSE LET r == rows[i]
             row == [days_csv |-> r.days_csv, hour |-> r.hour, minute |-> r.minute]
         IN HydrateReminders(rows, i + 1,
                IF r.days_csv # <<>> THEN ReplaceInto(rem, r.telegram_id, row)
                ELSE rem)

\* hydrate_from_sheets: Users, Reminders and XP are REPLACEd by their sheet rows
hydrate_from_sheets(led) ==
    LET hc == HydrateCheckins(shCheckins, 1, led, nextId)
        hb == HydrateBadges(shBadges, 1, badges, nextBadgeId)
    IN /\ users' = [tg \in Members |->
                      IF shUsers[tg] # NoName THEN shUsers[tg] ELSE users[tg]]
       /\ checkins' = hc.checkins
       /\ nextId' = hc.nextId
       /\ xp' = [tg \in Members |-> IF shXP[tg] # NoXP THEN shXP[tg] ELSE xp[tg]]
       /\ badges' = hb.badges
       /\ nextBadgeId' = hb.nextBadgeId
       /\ reminders' = HydrateReminders(shReminders, 1, reminders)

\* the process is stopped and started again: main()
Restart ==
    /\ restarts < limits.restarts
    /\ restarts' = restarts + 1
    /\ pendingBonus' = {}
    /\ ev' = Mark("restart")
    /\ blocked' = FALSE
    /\ IF BackfillError(checkins)
       THEN /\ up' = FALSE
            /\ jobs' = EmptyBag
            /\ setupJobs' = EmptyBag
            /\ UNCHANGED <<users, checkins, nextId, xp, badges, nextBadgeId,
                           reminders>>
       ELSE /\ IF GS_ENABLED
               THEN hydrate_from_sheets(Backfilled(checkins))
               ELSE /\ checkins' = Backfilled(checkins)
                    /\ UNCHANGED <<users, nextId, xp, badges, nextBadgeId,
                                   reminders>>
            /\ up' = ~RestoreError(reminders')
            /\ jobs' = IF RestoreError(reminders') THEN EmptyBag
                       ELSE restore_all_user_reminders(reminders')
            /\ setupJobs' = IF RestoreError(reminders') THEN EmptyBag
                            ELSE SetupJobs(EmptyBag)
    /\ UNCHANGED <<now, config, tsSeq, mirror, shReminders, lastRollover, fails>>

\* ----------------------------------------------------------------- next
Active == limits.members

Handlers ==
    \/ \E tg \in Active, day \in DayInputs, f \in FailPoints : cb_day(tg, day, f)
    \/ \E tg \in Active : undo(tg)

Next ==
    \/ Tick
    \/ \E tg \in Active, name \in limits.names, f \in FailPoints : register(tg, name, f)
    \/ Handlers
    \/ \E ok \in BOOLEAN, f \in FailPoints : cb_day_bonus(ok, f)
    \/ Restart
    \/ \E f \in FailPoints, dbOk \in BOOLEAN : Rollover(f, dbOk)

\* The deployment the repository is written for: a UTC host, the mirror and the
\* group chat configured, archiving rollover; started on a Sunday, nobody
\* registered yet.
Init ==
    InitAt({12}, {1}, {TRUE}, {1}, {"archive"}, Nobody,
           [span |-> MaxDays, step |-> 2, until |-> 0, checkins |-> MaxCheckins,
            restarts |-> MaxRestarts, fails |-> MaxFails, members |-> {1},
            names |-> {"Isayas", "Guest"}])

Spec == Init /\ [][Next]_vars

\* One registered member on a host in the fixed zone, with the mirror: check-ins,
\* undos and restarts over the first days of a week.
InitSolo ==
    InitAt({0}, {0}, {TRUE}, {0}, {"none"}, OneMember,
           [span |-> MaxDays, step |-> 2, until |-> 0, checkins |-> MaxCheckins,
            restarts |-> MaxRestarts, fails |-> 0, members |-> {1},
            names |-> TEAM])

NextSolo ==
    \/ Tick
    \/ Handlers
    \/ Restart

SpecSolo == InitSolo /\ [][NextSolo]_vars

\* One registered member, no mirror: a check-in on each day from Monday on.
InitWeek ==
    InitAt({0}, {0}, {FALSE}, {0}, {"none"}, OneMember,
           [span |-> MaxDays, step |-> 2, until |-> 0, checkins |-> MaxWeekCheckins,
            restarts |-> 0, fails |-> 0, members |-> {1},
            names |-> TEAM])

NextWeek ==
    \/ Tick
    \/ Handlers

SpecWeek == InitWeek /\ [][NextWeek]_vars

BothMembers == [tg \in Members |-> IF tg = 1 THEN "Isayas" ELSE "Sahara"]

InitLedger ==
    InitAt({12}, {0, 1}, {FALSE}, {1}, {"none"}, BothMembers,
           [span |-> MaxSpan, step |-> 1, until |-> 0, checkins |-> MaxCheckins,
            restarts |-> 0, fails |-> 0, members |-> Members,
            names |-> TEAM])

NextLedger ==
    \/ Tick
    \/ Handlers
    \/ \E ok \in BOOLEAN : cb_day_bonus(ok, 0)
    \/ Rollover(0, TRUE)

SpecLedger == InitLedger /\ [][NextLedger]_vars

\* One registered member, no mirror, with or without a group chat: the
\* check-ins, undos and weekly bonuses of one week from Monday on.
InitBonus ==
    InitAt({0}, {0}, {FALSE}, {0, 1}, {"none"}, OneMember,
           [span |-> MaxDays, step |-> 2, until |-> 0, checkins |-> MaxWeekCheckins,
            restarts |-> 0, fails |-> 0, members |-> {1},
            names |-> TEAM])

NextBonus ==
    \/ Tick
    \/ Handlers
    \/ \E ok \in BOOLEAN : cb_day_bonus(ok, 0)

SpecBonus == InitBonus /\ [][NextBonus]_vars

\* One registered member with the mirror and the group chat: the check-ins
\* (none undone), bonuses, mirror failures and restarts of one week from Monday on.
InitLevels ==
    InitAt({0}, {0}, {TRUE}, {1}, {"none"}, OneMember,
           [span |-> MaxDays, step |-> 2, until |-> 0, checkins |-> MaxCheckins,
            restarts |-> MaxRestarts, fails |-> MaxFails, members |-> {1},
            names |-> TEAM])

NextLevels ==
    \/ Tick
    \/ \E tg \in Active, day \in DayInputs, f \in FailPoints : cb_day(tg, day, f)
    \/ \E ok \in BOOLEAN, f \in FailPoints : cb_day_bonus(ok, f)
    \/ Restart

SpecLevels == InitLevels /\ [][NextLevels]_vars

\* ------------------------------------------------------------ XP totals
\* One registered member, no mirror, who has earned a total of up to MaxXP by
\* check-ins that were undone again (undo keeps the XP), and checks in today.
XPTotals == {x \in 0..MaxXP : x % XP_PER_CHECKIN = 0}

InitTotals ==
    /\ now = 0
    /\ hostSkew = 0
    /\ GS_ENABLED = FALSE
    /\ GROUP_CHAT_ID = 0
    /\ rolloverMode = "none"
    /\ up = TRUE
    /\ blocked = FALSE
    /\ users = OneMember
    /\ checkins = {}
    /\ \E x \in XPTotals :
         /\ xp = [tg \in Members |->
                    IF tg = 1 /\ x > 0
                    THEN [team_name |-> "Isayas", xp |-> x,
                          level |-> level_for_xp(x), last_badge |-> NoBadge]
                    ELSE NoXP]
         /\ nextId = (x \div XP_PER_CHECKIN) + 1
    /\ tsSeq = 0
    /\ badges = {}
    /\ nextBadgeId = 1
    /\ shUsers = [tg \in Members |-> NoName]
    /\ shCheckins = <<>>
    /\ shXP = [tg \in Members |-> NoXP]
    /\ shBadges = <<>>
    /\ shArchive = <<>>
    /\ pendingBonus = {}
    /\ reminders = [tg \in Members |-> NoRem]
    /\ jobs = EmptyBag
    /\ setupJobs = SetupJobs(EmptyBag)
    /\ shReminders = <<>>
    /\ lastRollover = week_start_iso(LocalDate(now))
    /\ restarts = 0
    /\ fails = 0
    /\ limits = [span |-> 1, step |-> 2, until |-> now + 2, checkins |-> 1,
                 restarts |-> 0, fails |-> 0, members |-> {1}, names |-> TEAM]
    /\ ev = Mark("init")

NextTotals ==
    \/ Tick
    \/ Handlers

SpecTotals == InitTotals /\ [][NextTotals]_vars

\* ------------------------------------------------------------ reminders
\* Both members registered, with the mirror: member 1 sets, replaces, queries
\* and stops a reminder schedule, jobs fire and the process restarts, from a
\* Monday morning on.
RemindArgs ==
    {<<>>,
     <<<<"MON", "WED">>, <<Digits(19), Digits(30)>>>>,
     <<<<"FRI">>, <<Digits(8), Digits(0)>>>>,
     <<<<"WED", "MON", "MON">>, <<Digits(8), Digits(0)>>>>,
     <<<<"FUNDAY">>, <<Digits(19), Digits(30)>>>>,
     <<<<"MON", "WED">>, <<Digits(24), Digits(0)>>>>,
     <<<<"MON", "WED">>, <<Digits(19), Digits(60)>>>>,
     <<<<"MON", "WED">>, <<Digits(19), Word>>>>,
     <<<<"MON", "WED">>, <<Digits(19), Digits(30), Digits(0)>>>>}

\* member 2 has set MON,WED 19:30 before: the row, its jobs and its sheet row
EarlierRow == [days_csv |-> <<"MON", "WED">>, hour |-> 19, minute |-> 30]

InitReminders ==
    /\ now = 0
    /\ hostSkew = 0
    /\ GS_ENABLED = TRUE
    /\ GROUP_CHAT_ID = 0
    /\ rolloverMode = "none"
    /\ up = TRUE
    /\ blocked = FALSE
    /\ users = BothMembers
    /\ checkins = {}
    /\ nextId = 1
    /\ tsSeq = 0
    /\ xp = [tg \in Members |-> NoXP]
    /\ badges = {}
    /\ nextBadgeId = 1
    /\ shUsers = BothMembers
    /\ shCheckins = <<>>
    /\ shXP = [tg \in Members |-> NoXP]
    /\ shBadges = <<>>
    /\ shArchive = <<>>
    /\ pendingBonus = {}
    /\ reminders = [tg \in Members |-> IF tg = 2 THEN EarlierRow ELSE NoRem]
    /\ jobs = schedule_user_reminders(EmptyBag, 2, parse_days_csv(EarlierRow.days_csv),
                                      EarlierRow.hour, EarlierRow.minute)
    /\ setupJobs = SetupJobs(EmptyBag)
    /\ shReminders = <<[telegram_id |-> 2, days_csv |-> EarlierRow.days_csv,
                        hour |-> EarlierRow.hour, minute |-> EarlierRow.minute]>>
    /\ lastRollover = week_start_iso(LocalDate(now))
    /\ restarts = 0
    /\ fails = 0
    /\ limits = [span |-> MaxHalfDays, step |-> 1, until |-> now + MaxHalfDays,
                 checkins |-> 0, restarts |-> MaxRestarts, fails |-> MaxFails,
                 members |-> {1}, names |-> TEAM]
    /\ ev = Mark("init")

NextReminders ==
    \/ Tick
    \/ \E tg \in Active, args \in RemindArgs, f \in FailPoints, ok \in BOOLEAN :
          remind(tg, args, f, ok)
    \/ \E tg \in Active : myreminders(tg)
    \/ \E tg \in Active, f \in FailPoints, ok \in BOOLEAN : stopreminders(tg, f, ok)
    \/ \E j \in BagToSet(jobs), ok \in BOOLEAN : personal_reminder_job(j, ok)
    \/ \E j \in BagToSet(setupJobs), un \in SUBSET Members : dm_nudge(j, un)
    \/ Restart

SpecReminders == InitReminders /\ [][NextReminders]_vars

\* The same deployment, whose Reminders sheet an operator may edit by hand.
SheetHours == {8, 24}

NextRestore ==
    \/ NextReminders
    \/ \E i \in 1..2, h \in SheetHours : SheetEdited(i, h)

SpecRestore == InitReminders /\ [][NextRestore]_vars

\* ---------------------------------------------------------- setup jobs
\* Both members registered, no mirror, with or without a group chat: the
\* broadcasts and nudges of the first days of a week, and setup functions run
\* again on the running application.
SetupFunctions == {"broadcasts", "nudges", "rollover"}

InitSetup ==
    InitAt({0}, {0}, {FALSE}, {0, 1}, {"none"}, BothMembers,
           [span |-> MaxSpan, step |-> 1, until |-> 0, checkins |-> 0,
            restarts |-> 0, fails |-> 0, members |-> {}, names |-> TEAM])

NextSetup ==
    \/ Tick
    \/ \E f \in SetupFunctions : SetupRun(f)
    \/ \E j \in BagToSet(setupJobs), ok \in BOOLEAN : send_group_text(j, ok)
    \/ \E j \in BagToSet(setupJobs), un \in SUBSET Members : dm_nudge(j, un)

SpecSetup == InitSetup /\ [][NextSetup]_vars

\* --------------------------------------------------------- registration
\* Nobody registered, with or without the mirror: two callers register and
\* re-register under roster names and another name, with one check-in.
RegisterNames == TEAM \cup {"Guest"}

InitRegister ==
    InitAt({0}, {0}, {TRUE, FALSE}, {0}, {"none"}, Nobody,
           [span |-> MaxHalfDays, step |-> 1, until |-> 0, checkins |-> 1,
            restarts |-> 0, fails |-> MaxFails, members |-> Members,
            names |-> RegisterNames])

NextRegister ==
    \/ Tick
    \/ \E tg \in Active, name \in limits.names, f \in FailPoints : register(tg, name, f)
    \/ \E tg \in Active, day \in DayInputs : cb_day(tg, day, 0)

SpecRegister == InitRegister /\ [][NextRegister]_vars

\* ------------------------------------------------------------- liveness
\* One registered member with the mirror, in each rollover mode, from Sunday
\* on: check-ins, a check-in whose spreadsheet call never returns, and the
\* rollover of Monday. The event loop runs a due job and time passes.
InitLive ==
    InitAt({12}, {0}, {TRUE}, {0}, ROLLOVER_MODES, OneMember,
           [span |-> MaxSpan, step |-> 1, until |-> 0, checkins |-> MaxCheckins,
            restarts |-> 0, fails |-> 0, members |-> {1},
            names |-> TEAM])

NextLive ==
    \/ Tick
    \/ \E tg \in Active, day \in DayInputs : cb_day(tg, day, 0)
    \/ \E tg \in Active, day \in DayInputs : cb_day_hung(tg, day)
    \/ Rollover(0, TRUE)

SpecLive ==
    /\ InitLive
    /\ [][NextLive]_vars
    /\ WF_vars(Tick)
    /\ WF_vars(Rollover(0, TRUE))

\* ------------------------------------------------------- display names
\* One member registered, no mirror, no rollover deletion: the member
\* re-registers under roster names and checks in from Sunday to Wednesday.
InitNames ==
    InitAt({12}, {0}, {FALSE}, {0}, {"none"}, OneMember,
           [span |-> MaxDays, step |-> 2, until |-> 0, checkins |-> MaxWeekCheckins,
            restarts |-> 0, fails |-> 0, members |-> {1},
            names |-> TEAM])

NextNames ==
    \/ Tick
    \/ \E tg \in Active, name \in limits.names : register(tg, name, 0)
    \/ \E tg \in Active, day \in DayInputs : cb_day(tg, day, 0)
    \/ Rollover(0, TRUE)

SpecNames == InitNames /\ [][NextNames]_vars

\* ------------------------------------------------------------- comeback
\* One registered member with the mirror, in each rollover mode: check-ins
\* from Sunday to Wednesday with the rollover of Monday between them.
InitComeback ==
    InitAt({12}, {0}, {TRUE}, {0}, ROLLOVER_MODES, OneMember,
           [span |-> MaxDays, step |-> 2, until |-> 0, checkins |-> MaxWeekCheckins,
            restarts |-> 0, fails |-> 0, members |-> {1},
            names |-> TEAM])

NextComeback ==
    \/ Tick
    \/ \E tg \in Active, day \in DayInputs : cb_day(tg, day, 0)
    \/ Rollover(0, TRUE)

SpecComeback == InitComeback /\ [][NextComeback]_vars

\* -------------------------------------------------------------- ranking
\* Both members registered, no mirror: check-ins from Monday on, the weekly
\* table and the leaderboard.
InitBoard ==
    InitAt({0}, {0}, {FALSE}, {0}, {"none"}, BothMembers,
           [span |-> MaxDays, step |-> 2, until |-> 0, checkins |-> MaxWeekCheckins,
            restarts |-> 0, fails |-> 0, members |-> Members,
            names |-> TEAM])

NextBoard ==
    \/ Tick
    \/ \E tg \in Active, day \in DayInputs : cb_day(tg, day, 0)
    \/ week
    \/ leaderboard

SpecBoard == InitBoard /\ [][NextBoard]_vars

\* ------------------------------------------------------------- rollover
\* One registered member, on a host in, ahead of or behind the fixed zone,
\* with or without the mirror, in each rollover mode: check-ins from Sunday on
\* and the rollover of Monday, with mirror and store failures.
InitRollover ==
    InitAt({12}, {-1, 0, 1}, {TRUE, FALSE}, {0}, ROLLOVER_MODES, OneMember,
           [span |-> MaxSpan, step |-> 1, until |-> 0, checkins |-> MaxCheckins,
            restarts |-> 0, fails |-> MaxFails, members |-> {1},
            names |-> TEAM])

NextRollover ==
    \/ Tick
    \/ \E tg \in Active, day \in DayInputs, f \in FailPoints : cb_day(tg, day, f)
    \/ \E f \in FailPoints, dbOk \in BOOLEAN : Rollover(f, dbOk)

SpecRollover == InitRollover /\ [][NextRollover]_vars

\* ------------------------------------------------------ weekly histories
\* A deployment that keeps its weeks (no rollover deletion), with no mirror and
\* no group chat, after MaxWeeks weeks in which member 1 made the first
\* cnt[w] check-ins of week w, on its Monday, Tuesday and Wednesday.
WeekCounts == [0..(MaxWeeks - 1) -> 0..3]

HistoryRow(w, d) ==
    [id |-> 3 * w + d, telegram_id |-> 1, team_name |-> "Isayas",
     week_start |-> DaysPerWeek * w, day |-> d, minutes |-> DEFAULT_MINUTES,
     ts |-> [date |-> DaysPerWeek * w + d - 1, seq |-> 3 * w + d - 3 * MaxWeeks],
     local_date |-> DaysPerWeek * w + d - 1]

HistoryRows(cnt) ==
    {HistoryRow(p[1], p[2]) :
        p \in {q \in (0..(MaxWeeks - 1)) \X (1..3) : q[2] <= cnt[q[1]]}}

\* the working state of a handler on an empty store
EmptyWork ==
    [xp |-> [tg \in Members |-> NoXP], badges |-> {}, nextBadgeId |-> 1,
     shCheckins |-> <<>>, shXP |-> [tg \in Members |-> NoXP], shBadges |-> <<>>,
     shUsers |-> [tg \in Members |-> NoName], calls |-> 0, failAt |-> 0,
     exc |-> FALSE]

\* cb_day from the XP award on, for the row it has just inserted into led
Rewarded(st, led, row) ==
    LET tg == row.telegram_id
        name == row.team_name
        s2 == get_or_create_xp(st, tg, name)
        s3 == set_xp(s2, tg, name, s2.xp[tg].xp + XP_PER_CHECKIN,
                     level_for_xp(s2.xp[tg].xp + XP_PER_CHECKIN), NoBadge)
    IN maybe_award_condition_badges(s3, tg, name, row.week_start,
           DoneDays(led, tg, row.week_start), streak_full(led, name),
           was_zero_last_week(led, name, 2 * row.local_date),
           Weekday(row.local_date) = 0)

\* the XP and badges after the check-ins of a history, made in order
RECURSIVE HistoryStore(_, _, _)
HistoryStore(cnt, k, st) ==
    IF k > 3 * MaxWeeks THEN st
    ELSE LET w == (k - 1) \div 3
             d == ((k - 1) % 3) + 1
             after == IF d <= cnt[w]
                      THEN Rewarded(st, {r \in HistoryRows(cnt) : r.id <= k},
                                    HistoryRow(w, d))
                      ELSE st
         IN CHOOSE r \in {HistoryStore(cnt, k + 1, s) : s \in {after}} : TRUE

\* Thursday of the last week of a history
InitStreak ==
    /\ now = 2 * (DaysPerWeek * (MaxWeeks - 1) + 3)
    /\ hostSkew = 0
    /\ GS_ENABLED = FALSE
    /\ GROUP_CHAT_ID = 0
    /\ rolloverMode = "none"
    /\ up = TRUE
    /\ blocked = FALSE
    /\ users = OneMember
    /\ \E cnt \in WeekCounts :
         \E st \in {HistoryStore(cnt, 1, EmptyWork)} :
            /\ checkins = HistoryRows(cnt)
            /\ xp = st.xp
            /\ badges = st.badges
            /\ nextBadgeId = st.nextBadgeId
    /\ nextId = 3 * MaxWeeks + 1
    /\ tsSeq = 0
    /\ shUsers = [tg \in Members |-> NoName]
    /\ shCheckins = <<>>
    /\ shXP = [tg \in Members |-> NoXP]
    /\ shBadges = <<>>
    /\ shArchive = <<>>
    /\ pendingBonus = {}
    /\ reminders = [tg \in Members |-> NoRem]
    /\ jobs = EmptyBag
    /\ setupJobs = SetupJobs(EmptyBag)
    /\ shReminders = <<>>
    /\ lastRollover = week_start_iso(LocalDate(now))
    /\ restarts = 0
    /\ fails = 0
    /\ limits = [span |-> 1, step |-> 2, until |-> now + 2, checkins |-> 1,
                 restarts |-> 0, fails |-> 0, members |-> {1}, names |-> TEAM]
    /\ ev = Mark("init")

NextStreak ==
    \/ Tick
    \/ Handlers
    \/ streaks

SpecStreak == InitStreak /\ [][NextStreak]_vars

\* --------------------------------------------------------- fourth week
\* three full weeks (Monday, Tuesday, Wednesday) of member 1
ThreeFullWeeks == [w \in 0..(MaxWeeks - 1) |-> IF w < 3 THEN 3 ELSE 0]

\* Sunday of the third of three full weeks of member 1, in each rollover
\* mode, no mirror and no group chat: where the rollover deletes, the Mondays
\* before have left only the rows of the third week in the ledger. Then the
\* rollover of the fourth Monday and the check-ins of the fourth week.
InitFourWeeks ==
    /\ now = 2 * (DaysPerWeek * 2 + 6)
    /\ hostSkew = 0
    /\ GS_ENABLED = FALSE
    /\ GROUP_CHAT_ID = 0
    /\ rolloverMode \in ROLLOVER_MODES
    /\ up = TRUE
    /\ blocked = FALSE
    /\ users = OneMember
    /\ \E st \in {HistoryStore(ThreeFullWeeks, 1, EmptyWork)} :
            /\ xp = st.xp
            /\ badges = st.badges
            /\ nextBadgeId = st.nextBadgeId
    /\ checkins = IF rolloverMode = "none" THEN HistoryRows(ThreeFullWeeks)
                  ELSE {r \in HistoryRows(ThreeFullWeeks) :
                           r.week_start = DaysPerWeek * 2}
    /\ nextId = 3 * MaxWeeks + 1
    /\ tsSeq = 0
    /\ shUsers = [tg \in Members |-> NoName]
    /\ shCheckins = <<>>
    /\ shXP = [tg \in Members |-> NoXP]
    /\ shBadges = <<>>
    /\ shArchive = <<>>
    /\ pendingBonus = {}
    /\ reminders = [tg \in Members |-> NoRem]
    /\ jobs = EmptyBag
    /\ setupJobs = SetupJobs(EmptyBag)
    /\ shReminders = <<>>
    /\ lastRollover = week_start_iso(LocalDate(now))
    /\ restarts = 0
    /\ fails = 0
    /\ limits = [span |-> MaxDays, step |-> 2, until |-> now + 2 * MaxDays,
                 checkins |-> MaxCheckins, restarts |-> 0, fails |-> 0,
                 members |-> {1}, names |-> TEAM]
    /\ ev = Mark("init")

NextFourWeeks ==
    \/ Tick
    \/ \E tg \in Active, day \in DayInputs : cb_day(tg, day, 0)
    \/ Rollover(0, TRUE)

SpecFourWeeks == InitFourWeeks /\ [][NextFourWeeks]_vars

\* =================================================================== claims
\* a handler ran in this step: cb_day and undo write a new event
HandlerStep(op) == ev' # ev /\ ev'.op = op

\* a record without its id and its timestamps
Content(r) == [telegram_id |-> r.telegram_id, team_name |-> r.team_name,
               week_start |-> r.week_start, day |-> r.day, minutes |-> r.minutes]

\* C1: after any sequence of check-ins, undos and duplicate submissions by any
\* members, the ledger holds at most one record per (member, local_date).
OnePerMemberAndLocalDate ==
    \A a \in checkins, b \in checkins :
        (a.telegram_id = b.telegram_id /\ a.local_date = b.local_date) => a = b

\* a duplicate submission was refused while the ledger holds several records
DuplicateRefused ==
    /\ ev.op = "cb_day"
    /\ ev.res = "AlreadyCheckedInToday"
    /\ \E r \in checkins : r.telegram_id = ev.m /\ r.local_date = LocalDate(now)
    /\ Cardinality(checkins) >= 2

\* C2: for every (member, week_start) the slots recorded in the ledger are a
\* prefix of {1,2,3}: one of {}, {1}, {1,2}, {1,2,3}.
SlotsArePrefix ==
    \A r \in checkins :
        DoneDays(checkins, r.telegram_id, r.week_start) \in {1..k : k \in 0..3}

\* C3: in every ledger state the next-needed slot of the code (max recorded
\* slot + 1, or 1 when none) equals 1 + the number of distinct slots recorded.
NextNeededIsCountPlusOne ==
    \A r \in checkins :
        LET done == DoneDays(checkins, r.telegram_id, r.week_start)
        IN NextNeeded(done) = Cardinality(done) + 1

\* C4: every record inserted by a check-in has its slot in {1,2,3}; a request
\* for another slot is rejected and inserts nothing.
InsertedSlotsInRange ==
    [][HandlerStep("cb_day") /\ ev'.day \notin {1, 2, 3}
          => ev'.res # "Logged" /\ checkins' = checkins]_vars

\* C5: of two submissions by one member for one slot on the same day, the
\* first inserts one record and the second is reported as a duplicate (already
\* checked in today, or already logged), raises nothing and inserts nothing.
SecondTapRejected ==
    [][(/\ ev.op = "cb_day"
        /\ ev.res = "Logged"
        /\ HandlerStep("cb_day")
        /\ ev'.m = ev.m
        /\ ev'.day = ev.day
        /\ ev.rec.ts.date = LocalDate(now))
          => /\ ev'.res \in {"AlreadyCheckedInToday", "AlreadyLogged"}
             /\ ~ev'.exc
             /\ ev.rec \in checkins
             /\ checkins' = checkins]_vars

\* the second tap on the slot that was just logged was answered
SecondTapSeen ==
    /\ ev.op = "cb_day"
    /\ ev.res = "AlreadyCheckedInToday"
    /\ \E r \in checkins : /\ r.telegram_id = ev.m
                           /\ r.day = ev.day
                           /\ r.ts = [date |-> LocalDate(now), seq |-> tsSeq]

\* C6: a rejected check-in leaves the ledger, the XP and the badges unchanged,
\* and an accepted one inserts its record and adds the per-checkin XP once.
XPOnlyWithAcceptedRecord ==
    [][HandlerStep("cb_day") =>
          LET m == ev'.m
              before == IF xp[m] = NoXP THEN 0 ELSE xp[m].xp
          IN IF ev'.res = "Logged"
             THEN /\ checkins' = checkins \cup {ev'.rec}
                  /\ xp'[m] # NoXP
                  /\ xp'[m].xp = before + XP_PER_CHECKIN
             ELSE /\ checkins' = checkins
                  /\ xp' = xp
                  /\ badges' = badges]_vars

\* C7: the week_start of every record is the Monday of the week that contains
\* the record's local_date.
WeekStartIsMondayOfLocalDate ==
    \A r \in checkins :
        r.local_date # NULL => r.week_start = week_start_iso(r.local_date)

\* C8: an undo deletes exactly the member's record of the current week with
\* the greatest timestamp and leaves every other record unchanged; without
\* such a record the ledger is unchanged and the outcome is a reported no-op.
UndoRemovesLatestOnly ==
    [][HandlerStep("undo") =>
          LET mine == {r \in checkins :
                          /\ r.telegram_id = ev'.m
                          /\ r.week_start = week_start_iso(HostDate(now))}
          IN IF mine = {}
             THEN ev'.res = "NothingToUndo" /\ checkins' = checkins
             ELSE /\ ev'.res = "Removed"
                  /\ ev'.rec \in mine
                  /\ \A o \in mine : o.ts.seq <= ev'.rec.ts.seq
                  /\ checkins' = checkins \ {ev'.rec}]_vars

\* an undo removed a member's latest record; an earlier record of that week
\* and a record of another member are still there
LatestRemovedOthersKept ==
    /\ ev.op = "undo"
    /\ ev.res = "Removed"
    /\ \E r \in checkins : /\ r.telegram_id = ev.m
                           /\ r.week_start = ev.rec.week_start
                           /\ r.ts.seq < ev.rec.ts.seq
    /\ \E r \in checkins : r.telegram_id # ev.m

\* C9: an undo followed at once by a submission of the removed slot by the same
\* member is accepted and gives back the ledger of before the undo, ignoring
\* record ids and timestamps.
UndoThenResubmitRestores ==
    [][(/\ ev.op = "undo"
        /\ ev.res = "Removed"
        /\ HandlerStep("cb_day")
        /\ ev'.m = ev.m
        /\ ev'.day = ev.rec.day)
          => /\ ev'.res = "Logged"
             /\ {Content(r) : r \in checkins'}
                  = {Content(r) : r \in checkins \cup {ev.rec}}]_vars

\* C10: an undo leaves every member's XP row (total, level, last badge) and
\* every badge row unchanged.
UndoKeepsXPAndBadges ==
    [][HandlerStep("undo") => xp' = xp /\ badges' = badges]_vars

\* an undo removed a record of a member who holds XP and a badge
UndoneWithXPAndBadge ==
    /\ ev.op = "undo"
    /\ ev.res = "Removed"
    /\ xp[ev.m] # NoXP
    /\ xp[ev.m].xp >= XP_PER_CHECKIN
    /\ \E b \in badges : b.telegram_id = ev.m

\* the consecutive full weeks of a name counted back from week wk, week by week
RECURSIVE GapStreak(_, _, _)
GapStreak(led, name, wk) ==
    IF NameWeekCount(led, name, wk) = 3
    THEN 1 + GapStreak(led, name, wk - DaysPerWeek)
    ELSE 0

\* C11: the streak computed for a member counts the full weeks back from the
\* member's latest week and stops at the first week that has fewer than 3
\* distinct slots or no record at all (full W, W-1, W-2 and an empty W-3
\* give 3, whatever lies before W-3).
StreakStopsAtGap ==
    ev.op = "streaks" =>
        \A n \in TEAM :
            ev.rec[n] = IF NameWeeks(checkins, n) = {} THEN 0
                        ELSE GapStreak(checkins, n, Max(NameWeeks(checkins, n)))

\* C12: the badges table holds at most one row per (member, badge code), after
\* any sequence of check-ins, badge awards and restarts with hydration.
OneRowPerBadge ==
    \A a \in badges, b \in badges :
        (a.telegram_id = b.telegram_id /\ a.badge_code = b.badge_code) => a = b

\* C13: wherever it is called, award_badge(member, code) returns (true) having
\* inserted exactly one row for the pair when the pair has no row, a second
\* identical call then changing nothing; and when the pair has a row it
\* changes nothing, neither badges nor XP.
AwardBadgeOnceOnly ==
    \A tg \in Members, code \in BADGE_CODES, f \in FailPoints :
        (MayFail(f) /\ users[tg] # NoName) =>
            LET wk == week_start_iso(HostDate(now))
                st == Work(f)
                r == award_badge(st, tg, users[tg], code, wk)
            IN IF HasBadge(badges, tg, code)
               THEN r = st
               ELSE /\ ~r.exc
                    /\ HasBadge(r.badges, tg, code)
                    /\ Cardinality(r.badges) = Cardinality(badges) + 1
                    /\ award_badge(r, tg, users[tg], code, wk) = r

\* the weekly bonuses paid so far to the only member of SpecBonus, whose total
\* is XP_PER_CHECKIN for each accepted check-in plus the bonuses
WeeklyBonuses ==
    IF xp[1] = NoXP THEN 0
    ELSE (xp[1].xp - XP_PER_CHECKIN * tsSeq) \div XP_BONUS_FULL_WEEK

\* C14: within one week a member is paid the weekly bonus at most once, also
\* when slot 3 is undone and submitted again.
BonusOncePerWeek ==
    now < HalfDaysPerWeek => WeeklyBonuses <= 1

\* an accepted check-in that takes the member's week from two slots to three
CompletesWeek ==
    /\ HandlerStep("cb_day")
    /\ ev'.res = "Logged"
    /\ Cardinality(DoneDays(checkins, ev'.m, ev'.rec.week_start)) = 2
    /\ Cardinality(DoneDays(checkins', ev'.m, ev'.rec.week_start)) = 3

\* C15: every accepted check-in that takes the week from 2 to 3 slots adds
\* XP_BONUS_FULL_WEEK to the member's total, with or without a group chat and
\* whether or not the group announcement is delivered.
BonusOnEveryCompletion ==
    [][/\ CompletesWeek => pendingBonus' # {}
       /\ (pendingBonus # {} /\ pendingBonus' = {}) =>
              \A p \in pendingBonus :
                  xp'[p.telegram_id].xp = xp[p.telegram_id].xp + XP_BONUS_FULL_WEEK]_vars

\* C16: every stored XP row has level = level_for_xp(total XP), after any
\* sequence of check-ins, weekly bonuses, badge awards and start-up hydration.
LevelMatchesXP ==
    \A tg \in Members :
        xp[tg] # NoXP => xp[tg].level = level_for_xp(xp[tg].xp)

\* a member past the first threshold whose row was rebuilt from the XP sheet
HydratedAboveFirstLevel ==
    /\ ev.op = "restart"
    /\ Running
    /\ \E tg \in Members : xp[tg] # NoXP /\ xp[tg].level >= 2 /\ xp[tg] = shXP[tg]

\* the number of thresholds at or below x, and at least 1
ThresholdCount(x) ==
    Max({1, Cardinality({i \in DOMAIN LEVEL_THRESHOLDS : LEVEL_THRESHOLDS[i] <= x})})

\* C17: level_for_xp(x) is max(1, number of thresholds <= x) for every integer
\* x of the range (the stored totals and the integers around each of them),
\* and it does not decrease when x grows.
LevelIsThresholdCount ==
    \A tg \in Members :
        xp[tg] # NoXP =>
            /\ xp[tg].level = ThresholdCount(xp[tg].xp)
            /\ \A x \in (xp[tg].xp - XP_PER_CHECKIN)..(xp[tg].xp + XP_PER_CHECKIN) :
                   /\ level_for_xp(x) = ThresholdCount(x)
                   /\ level_for_xp(x) <= level_for_xp(x + 1)

\* a check-in whose total lands on a threshold exactly
CheckinReachesThreshold ==
    /\ ev.op = "cb_day"
    /\ ev.res = "Logged"
    /\ xp[1] # NoXP
    /\ xp[1].xp = LEVEL_THRESHOLDS[3]
    /\ xp[1].level = 3

\* the XP and badge tables an accepted check-in writes when every mirror call
\* succeeds, computed from the state before the step
HealthyOutcome(r) ==
    LET tg == r.telegram_id
        led == checkins \cup {r}
        s2 == get_or_create_xp(Work(0), tg, r.team_name)
        s3 == set_xp(s2, tg, r.team_name, s2.xp[tg].xp + XP_PER_CHECKIN,
                     level_for_xp(s2.xp[tg].xp + XP_PER_CHECKIN), NoBadge)
    IN maybe_award_condition_badges(s3, tg, r.team_name, r.week_start,
           DoneDays(led, tg, r.week_start), streak_full(led, r.team_name),
           was_zero_last_week(led, r.team_name, now),
           Weekday(LocalDate(now)) = 0)

\* C18: a mirror call that fails during a check-in does not propagate and does
\* not stop the operation: the record, the per-checkin XP and the earned
\* badges are written exactly as with a healthy mirror.
MirrorFailureContained ==
    [][(HandlerStep("cb_day") /\ ev'.res = "Logged") =>
          /\ ~ev'.exc
          /\ checkins' = checkins \cup {ev'.rec}
          /\ xp' = HealthyOutcome(ev'.rec).xp
          /\ badges' = HealthyOutcome(ev'.rec).badges]_vars

\* the jobs of the queue named rem-<telegram_id>
JobsOf(js, tg) == [j \in {x \in DOMAIN js : x.name = tg} |-> js[j]]

\* one job per weekday of the schedule row, at its time
Triggers(tg, row) ==
    SetToBag({[name |-> tg, wd |-> wd, hour |-> row.hour, minute |-> row.minute] :
               wd \in parse_days_csv(row.days_csv)})

\* C19: when /remind has set a schedule for member M, the live triggers of M are
\* exactly one per weekday of the new schedule at its time, none of an earlier
\* schedule of M, and the triggers of the other members are as before.
ScheduleReplaced ==
    [][(HandlerStep("remind") /\ ev'.res = "Set") =>
          /\ JobsOf(jobs', ev'.m) = Triggers(ev'.m, ev'.rec)
          /\ \A j \in DOMAIN JobsOf(jobs', ev'.m) : CopiesIn(j, jobs') = 1
          /\ \A tg \in Members \ {ev'.m} : JobsOf(jobs', tg) = JobsOf(jobs, tg)]_vars

\* the Friday 08:00 schedule has replaced a Monday/Wednesday 19:30 one (still
\* on the sheet, whose update failed) while the other member has triggers
FridayReplacedMonWed ==
    /\ ev.op = "remind"
    /\ ev.res = "Set"
    /\ ev.exc
    /\ ev.rec = [days_csv |-> <<"FRI">>, hour |-> 8, minute |-> 0]
    /\ \E i \in DOMAIN shReminders :
          /\ shReminders[i].telegram_id = ev.m
          /\ shReminders[i].days_csv = <<"MON", "WED">>
          /\ shReminders[i].hour = 19
    /\ \E j \in DOMAIN jobs : j.name # ev.m

\* C20: a replacement is atomic: in every state a fire or a handler can observe,
\* the live triggers of a member are those of the member's persisted row and of
\* no other schedule (never old and new together, never the new row with the
\* old triggers), and a member without a row has no trigger.
ScheduleSwapAtomic ==
    up => \A tg \in Members :
              JobsOf(jobs, tg) = IF reminders[tg] = NoRem THEN EmptyBag
                                 ELSE Triggers(tg, reminders[tg])

\* a job of a replaced schedule's successor fires: the member's row was set to
\* 08:00 after a 19:30 schedule that the sheet still shows
FireAfterReplacement ==
    /\ ev.op = "personal_reminder_job"
    /\ ev.rec.hour = 8
    /\ reminders[ev.m] # NoRem
    /\ \E i \in DOMAIN shReminders :
          /\ shReminders[i].telegram_id = ev.m
          /\ shReminders[i].hour = 19

\* C21: when /stopreminders has run for member M, M has no live trigger and no
\* persisted row, the rows and triggers of the other members are as before, and
\* with no schedule of M to cancel neither rows nor triggers change.
CancelRemovesSchedule ==
    [][HandlerStep("stopreminders") =>
          /\ reminders'[ev'.m] = NoRem
          /\ JobsOf(jobs', ev'.m) = EmptyBag
          /\ \A tg \in Members \ {ev'.m} :
                /\ reminders'[tg] = reminders[tg]
                /\ JobsOf(jobs', tg) = JobsOf(jobs, tg)
          /\ reminders[ev'.m] = NoRem => (reminders' = reminders /\ jobs' = jobs)]_vars

\* a schedule was cancelled (its sheet row is still there, the delete on the
\* sheet having failed) while the other member keeps triggers
CancelledBesideOthers ==
    /\ ev.op = "stopreminders"
    /\ ev.exc
    /\ \E i \in DOMAIN shReminders : shReminders[i].telegram_id = ev.m
    /\ \E j \in DOMAIN jobs : j.name # ev.m

\* a schedule row the scheduler can install
ValidRow(row) ==
    /\ parse_days_csv(row.days_csv) # {}
    /\ row.hour \in 0..23
    /\ row.minute \in 0..59

\* C22: after a restart every member with a (valid) persisted row has live
\* triggers matching the row, members without a row have none, and another
\* member's bad row does not stop this.
RestartReinstallsTriggers ==
    ev.op = "restart" =>
        \A tg \in Members :
            /\ reminders[tg] = NoRem => JobsOf(jobs, tg) = EmptyBag
            /\ (reminders[tg] # NoRem /\ ValidRow(reminders[tg])) =>
                   JobsOf(jobs, tg) = Triggers(tg, reminders[tg])

\* C23: registering the broadcasts, the nudges and the weekly rollover is
\* idempotent: however often the setup functions have run, the queue holds
\* exactly one job under each of their names.
OneJobPerName ==
    \A j \in DOMAIN setupJobs :
        /\ CopiesIn(j, setupJobs) = 1
        /\ \A k \in DOMAIN setupJobs : k.name = j.name => k = j

\* the fire of a reminder, nudge or broadcast job
FireStep ==
    /\ ev' # ev
    /\ ev'.op \in {"personal_reminder_job", "dm_nudge", "send_group_text"}

\* C24: a fire changes nothing in the ledger, the XP, the badges or the
\* schedule registry, and a delivery that fails is swallowed by the fire: no
\* exception leaves it and every trigger stays in the queue for its later fires.
FireIsHarmless ==
    [][FireStep =>
          /\ ~ev'.exc
          /\ UNCHANGED <<checkins, xp, badges, reminders, jobs, setupJobs>>]_vars

\* the fire of the weekly rollover job
RolloverStep == lastRollover' # lastRollover

\* the week that ended before the Monday of now, in the fixed time zone
EndedWeek == week_start_iso(LocalDate(now)) - DaysPerWeek

\* the ledger record r has a row in the archive rows arch
Archived(r, arch) ==
    \E i \in DOMAIN arch :
        /\ arch[i].telegram_id = r.telegram_id
        /\ arch[i].week_start = r.week_start
        /\ arch[i].day = r.day
        /\ arch[i].ts = r.ts

\* C25: when the rollover fires in archive mode and no step of it fails, every
\* ledger record of the ended week is in the archive afterwards and the ledger
\* holds no record of that week, with or without the mirror and whether or
\* not the mirror has a row for every ledger record.
ArchiveMovesWeek ==
    [][(RolloverStep /\ rolloverMode = "archive" /\ fails' = fails) =>
          \A r \in checkins :
              r.week_start = EndedWeek =>
                  /\ Archived(r, shArchive')
                  /\ r \notin checkins']_vars

\* every ledger record has its row in the Checkins sheet
MirrorComplete == \A r \in checkins : Archived(r, shCheckins)

\* C26: an archiving rollover loses no record: with the mirror on and holding
\* a row for every ledger record, each ledger record is, after the fire, still
\* in the ledger or in the archive, also when the archive write or the delete
\* failed.
ArchiveLosesNothing ==
    [][(RolloverStep /\ rolloverMode = "archive" /\ GS_ENABLED /\ MirrorComplete) =>
          \A r \in checkins : r \in checkins' \/ Archived(r, shArchive')]_vars

\* the rows of a sheet outside week wk, in their order
OtherWeeks(rows, wk) ==
    LET Outside(r) == r.week_start # wk IN SelectSeq(rows, Outside)

\* C27: a rollover fire acts on the week that ended before the Monday of the
\* fire in the fixed time zone: in archive or clear mode it removes only
\* records of that week (all of them from the ledger when the delete
\* succeeds) and leaves the records and sheet rows of every other week as they
\* were; with neither mode it changes nothing.
RolloverActsOnEndedWeek ==
    [][RolloverStep =>
          /\ checkins' \subseteq checkins
          /\ \A r \in checkins \ checkins' : r.week_start = EndedWeek
          /\ OtherWeeks(shCheckins', EndedWeek) = OtherWeeks(shCheckins, EndedWeek)
          /\ (rolloverMode \in {"archive", "clear"} /\ fails' = fails) =>
                 \A r \in checkins' : r.week_start # EndedWeek
          /\ rolloverMode \notin {"archive", "clear"} =>
                 UNCHANGED <<store, mirror>>]_vars

\* the member tg has checked in exactly the slots `slots` this week, slot d on
\* the d-th day of the week
SlotPerDay(tg, slots) ==
    LET mine == {r \in checkins : r.telegram_id = tg}
    IN /\ {r.day : r \in mine} = slots
       /\ Cardinality(mine) = Cardinality(slots)
       /\ \A r \in mine : r.week_start = 0 /\ r.local_date = r.day - 1

\* a step of handler op in the first week
WeekOneStep(op) == HandlerStep(op) /\ now < HalfDaysPerWeek

\* C28: a registered member has checked in slot 1 on Monday and slot 2 on
\* Tuesday. On Wednesday a request for slot 1 is rejected as out of order with
\* the ledger unchanged and a request for slot 3 is accepted; afterwards the
\* weekly table shows slots 1, 2 and 3 filled for the member and the
\* leaderboard gives the member score 3.
MondayToWednesdayTrace ==
    [][\A tg \in Members :
          LET name == users[tg]
              Wednesday == SlotPerDay(tg, {1, 2}) /\ LocalDate(now) = 2
              After == SlotPerDay(tg, {1, 2, 3})
          IN /\ (Wednesday /\ HandlerStep("cb_day") /\ ev'.m = tg /\ ev'.day = 1) =>
                    ev'.res = "OutOfOrderSlot" /\ checkins' = checkins
             /\ (Wednesday /\ HandlerStep("cb_day") /\ ev'.m = tg /\ ev'.day = 3) =>
                    /\ ev'.res = "Logged"
                    /\ checkins' # checkins
                    /\ After'
             /\ (After /\ WeekOneStep("week")) =>
                    \A d \in 1..3 : ev'.rec[name][d]
             /\ (After /\ WeekOneStep("leaderboard")) =>
                    \E i \in DOMAIN ev'.rec.ordered :
                        /\ ev'.rec.ordered[i].name = name
                        /\ ev'.rec.ordered[i].score = 3]_vars

\* the leaderboard shown after the member's check-ins of Monday, Tuesday and
\* Wednesday
BoardAfterThreeDays ==
    /\ ev.op = "leaderboard"
    /\ SlotPerDay(1, {1, 2, 3})
    /\ LocalDate(now) = 2

\* the name a is before the name b in the alphabet
Alphabetical(a, b) == a = "Isayas" /\ b = "Sahara"

\* C29: in every ledger state the leaderboard lists every roster name exactly
\* once, with the score min(3, distinct slots the name has recorded this
\* week), in descending order of score and, among equal scores, in ascending
\* order of name.
LeaderboardRanksRoster ==
    ev.op = "leaderboard" =>
        LET board == ev.rec.ordered
            wk == week_start_iso(HostDate(now))
            slots(n) == {r.day : r \in {x \in checkins :
                                          x.team_name = n /\ x.week_start = wk}}
            capped(k) == IF k > 3 THEN 3 ELSE k
        IN /\ Len(board) = Cardinality(TEAM)
           /\ \A n \in TEAM : \E i \in DOMAIN board : board[i].name = n
           /\ \A i \in DOMAIN board :
                  board[i].score = capped(Cardinality(slots(board[i].name)))
           /\ \A i, j \in DOMAIN board :
                  i < j => \/ board[i].score > board[j].score
                           \/ /\ board[i].score = board[j].score
                              /\ Alphabetical(board[i].name, board[j].name)

\* a leaderboard on which the later name of the alphabet is ranked first, by
\* its higher score
LaterNameRankedFirst ==
    /\ ev.op = "leaderboard"
    /\ ev.rec.ordered[1].name = "Sahara"
    /\ ev.rec.ordered[1].score = 3
    /\ ev.rec.ordered[2].score > 0

\* the process is started again and hydrates from the mirror
HydrationStep == restarts' # restarts /\ GS_ENABLED /\ ~BackfillError(checkins)

\* the ledger led holds the check-in that r records
InLedger(r, led) ==
    \E o \in led :
        /\ o.telegram_id = r.telegram_id
        /\ o.week_start = r.week_start
        /\ o.day = r.day
        /\ o.ts = r.ts

\* C30: at a start the store wins over the mirror: a member's registration,
\* XP row and reminder schedule that the store holds keep their store value
\* through hydration, and hydration puts no check-in into the ledger that the
\* store did not hold (one removed by an undo stays removed).
StoreWinsAtHydration ==
    [][HydrationStep =>
          /\ \A tg \in Members :
                 /\ users[tg] # NoName => users'[tg] = users[tg]
                 /\ xp[tg] # NoXP => xp'[tg] = xp[tg]
                 /\ reminders[tg] # NoRem => reminders'[tg] = reminders[tg]
          /\ \A r \in checkins' : InLedger(r, checkins)]_vars

\* C31: the check-in that completes the fourth of four consecutive full weeks
\* of a member grants the member the FOUR_WEEK_STREAK badge, in every
\* rollover mode, the rollover having fired between the weeks.
FourthFullWeekGrantsStreakBadge ==
    [][\A tg \in Members :
          LET wk == DaysPerWeek * 3
          IN (/\ HandlerStep("cb_day")
              /\ ev'.m = tg
              /\ ev'.res = "Logged"
              /\ ev'.rec.week_start = wk
              /\ lastRollover = wk
              /\ DoneDays(checkins', tg, wk) = {1, 2, 3}) =>
                 HasBadge(badges', tg, "FOUR_WEEK_STREAK")]_vars

\* the member tg has a check-in of week wk, in the ledger or in the archive
CheckedInDuring(tg, wk) ==
    \/ \E r \in checkins : r.telegram_id = tg /\ r.week_start = wk
    \/ \E i \in DOMAIN shArchive :
           shArchive[i].telegram_id = tg /\ shArchive[i].week_start = wk

\* C32: a check-in grants the COMEBACK badge only when it completes the
\* member's slots 1, 2 and 3 of the week and the member made no check-in in
\* the week before, also when the rollover has removed that week's rows from
\* the ledger.
ComebackOnlyAfterEmptyWeek ==
    [][\A tg \in Members :
          (/\ HandlerStep("cb_day")
           /\ ev'.m = tg
           /\ HasBadge(badges', tg, "COMEBACK")
           /\ ~HasBadge(badges, tg, "COMEBACK")) =>
              /\ ev'.res = "Logged"
              /\ DoneDays(checkins', tg, ev'.rec.week_start) = {1, 2, 3}
              /\ ~CheckedInDuring(tg, EndedWeek)]_vars

\* the argument list a of /remind names no weekday or no time of day
InvalidScheduleArgs(a) ==
    /\ Len(a) >= 2
    /\ \/ \A i \in DOMAIN a[1] :
              a[1][i] \notin {"MON", "TUE", "WED", "THU", "FRI", "SAT", "SUN"}
       \/ Len(a[2]) # 2
       \/ \E i \in DOMAIN a[2] : ~a[2][i].int
       \/ /\ Len(a[2]) = 2
          /\ (a[2][1].val < 0 \/ a[2][1].val > 23
                \/ a[2][2].val < 0 \/ a[2][2].val > 59)

\* C33: /remind with a weekday list that names no weekday, or with a time that
\* is not two numbers HH:MM with the hour in 0..23 and the minute in 0..59, is
\* rejected as InvalidSchedule and leaves the member's row and jobs as they
\* were.
InvalidScheduleRejected ==
    [][\A tg \in Members, a \in RemindArgs :
          (InvalidScheduleArgs(a) /\ remind(tg, a, 0, TRUE)) =>
              /\ ev'.res = "InvalidSchedule"
              /\ UNCHANGED <<reminders, jobs, shReminders>>]_vars

\* a member with a schedule and its jobs has been answered InvalidSchedule
RejectedWithScheduleInPlace ==
    /\ ev.op = "remind"
    /\ ev.res = "InvalidSchedule"
    /\ reminders[ev.m] # NoRem
    /\ JobsOf(jobs, ev.m) # EmptyBag

\* C34: the users table holds one row per telegram_id; /register with a roster
\* name writes the caller's row, creating it or replacing its name, and no
\* other row; /register with another name is answered BadName and changes
\* neither the store nor the mirror.
RegistrationKeepsOneRow ==
    [][\A tg \in Members, name \in limits.names, f \in FailPoints :
          register(tg, name, f) =>
              IF name \in TEAM
              THEN /\ ev'.res = "Registered"
                   /\ users'[tg] = name
                   /\ \A o \in Members \ {tg} : users'[o] = users[o]
                   /\ UNCHANGED <<checkins, xp, badges>>
              ELSE /\ ev'.res = "BadName"
                   /\ UNCHANGED <<store, mirror>>]_vars

\* a member registered under one roster name has re-registered under another
\* beside another registered member
ReRegisteredBesideOther ==
    /\ ev.op = "register"
    /\ ev.res = "Registered"
    /\ users[ev.m] = "Sahara"
    /\ \E r \in checkins : r.telegram_id = ev.m /\ r.team_name = "Isayas"
    /\ \E o \in Members \ {ev.m} : users[o] # NoName

\* the fire time of the installed weekly-rollover trigger has arrived
RolloverTime ==
    /\ up
    /\ now % HalfDaysPerWeek = 0
    /\ lastRollover < LocalDate(now)

\* C35: an external call that never returns does not stall the scheduler:
\* the weekly-rollover trigger whose fire time has arrived eventually fires,
\* and the handlers are again and again ready for the next check-in.
SchedulerNeverStalls ==
    /\ RolloverTime ~> (lastRollover = week_start_iso(LocalDate(now)))
    /\ []<>HandlerReady

\* C36: the once-per-day cap survives restarts with hydration: no member has
\* two ledger records whose timestamps fall on the same local date.
OnePerDateAcrossRestarts ==
    \A a \in checkins, b \in checkins :
        (a.telegram_id = b.telegram_id /\ a.ts.date = b.ts.date) => a = b

\* the consecutive full weeks of the member tg, newest first, counted over the
\* rows with the member's telegram_id
RECURSIVE MemberStreakScan(_, _, _)
MemberStreakScan(led, tg, weeks) ==
    IF weeks = {} THEN 0
    ELSE LET w == Max(weeks)
         IN IF Cardinality(DoneDays(led, tg, w)) = 3
            THEN 1 + MemberStreakScan(led, tg, weeks \ {w})
            ELSE 0

MemberStreak(led, tg) ==
    MemberStreakScan(led, tg, {r.week_start : r \in {x \in led : x.telegram_id = tg}})

\* C37: the streak and the last-week-zero flag that cb_day computes for a
\* member are those of the member's own records: they equal the same
\* computation keyed by telegram_id, whatever display names the records carry.
ProgressIsPerMember ==
    [][\A tg \in Members :
          (HandlerStep("cb_day") /\ ev'.m = tg /\ ev'.res = "Logged") =>
              /\ streak_full(checkins', users[tg]) = MemberStreak(checkins', tg)
              /\ was_zero_last_week(checkins', users[tg], now)
                     = (WeekRows(checkins', tg, EndedWeek) = {})]_vars

\* C38: every row of the reminders table can be turned into triggers as it
\* is: it names at least one weekday and a time with the hour in 0..23 and
\* the minute in 0..59, in every reachable state, hydration included.
RowsAreRehydratable ==
    \A tg \in Members :
        reminders[tg] # NoRem =>
            /\ parse_days_csv(reminders[tg].days_csv) # {}
            /\ reminders[tg].hour >= 0 /\ reminders[tg].hour <= 23
            /\ reminders[tg].minute >= 0 /\ reminders[tg].minute <= 59

\* C39: a member's stored total_xp never decreases: no step of the program
\* (check-in, undo, badge award, weekly bonus, rollover, startup hydration)
\* leaves a member's XP row with a lower total than before, or without a row.
TotalXPNeverDecreases ==
    [][\A tg \in Members :
          xp[tg] # NoXP => (xp'[tg] # NoXP /\ xp'[tg].xp >= xp[tg].xp)]_vars

\* C40: once a member holds at least one badge, the last_badge of the
\* member's XP row is the code of the member's most recently granted badge,
\* in every later state (also after check-ins that grant no badge).
LatestBadge(tg) ==
    CHOOSE b \in badges :
        /\ b.telegram_id = tg
        /\ \A o \in badges : o.telegram_id = tg => o.id <= b.id

LastBadgeNamesLatestAward ==
    \A tg \in Members :
        (\E b \in badges : b.telegram_id = tg) =>
            /\ xp[tg] # NoXP
            /\ xp[tg].last_badge = LatestBadge(tg).badge_code

====
